---- MODULE Spec2Model ----
(***************************************************************************)
(* Model of the DOM Snap extension: the snapshot store kept in             *)
(* chrome.storage.local (url-utils.ts, storage service part), the          *)
(* background handlers that drive it (background/index.ts) and the         *)
(* content-script capture step (content/.../index.ts, dom-serializer.ts).  *)
(*                                                                         *)
(* Sizes are counted in MiB units: every size comparison of the code is    *)
(* linear, so 5 MiB / 8 MiB / 10 MiB become 5 / 8 / 10.                    *)
(***************************************************************************)
EXTENDS Integers, Sequences, FiniteSets, TLC

(***************************************************************************)
(* Bounds of the model                                                     *)
(***************************************************************************)
\* number of snapshot ids generateSnapshotId may hand out in one behaviour
MaxSaves == 3
\* the same, for the behaviours with overlapping operations
MaxConcSaves == 2
\* number of store operations started in a behaviour with overlapping operations
MaxConcOps == 4
\* number of RESTORE_SNAPSHOT requests in one behaviour
MaxRestores == 2
\* how far the clock of a promise-returning call is followed after it returned
MaxClock == 12

(***************************************************************************)
(* Program constants (MiB units)                                           *)
(***************************************************************************)
\* DEFAULT_SETTINGS.maxTotalSize = 8 * 1024 * 1024
DefaultMaxTotalSize == 8
\* DEFAULT_OPTIONS.maxSize of captureDOM = 5 * 1024 * 1024
DefaultMaxSize == 5
\* maxSize the background puts in the CONTENT_CAPTURE_DOM request
RequestedMaxSize == 5
\* maxSize the content script passes to captureDOM
ContentMaxSize == 10
\* renameSnapshot: newName.length > 100
MaxNameLength == 100
\* DEFAULT_OPTIONS.timeout of captureDOM = 10000 ms (in seconds)
CaptureTimeout == 10
\* the default timeout of restoreDOMHotReload and restoreDOM = 5000 ms (in seconds)
RestoreTimeout == 5

(***************************************************************************)
(* Inputs                                                                  *)
(***************************************************************************)
\* Date.now() readings (a wall clock: it may repeat a value and may be
\* stepped backwards)
Times == {1, 2}

\* serialized sizes of the page being captured
PageSizes == {3, 7, 11}

\* the settings object as configured: maxSnapshotsPerUrl (small stand-ins for
\* the default 50, and 0) and autoCleanup; the default-like ones come first
Configurations ==
  << [perUrl |-> 2, auto |-> TRUE], [perUrl |-> 1, auto |-> TRUE],
     [perUrl |-> 2, auto |-> FALSE], [perUrl |-> 1, auto |-> FALSE],
     [perUrl |-> 0, auto |-> TRUE], [perUrl |-> 0, auto |-> FALSE] >>

\* A URL string, as the parts it is written in: scheme "https:", userinfo
\* "u@", host "h", path "/a", query "?q", fragment "#x" stand for
\* https://u@h/a?q#x.  A string without a scheme is one new URL() rejects.
UrlString(scheme, userinfo, host, path, query, fragment) ==
  [scheme |-> scheme, userinfo |-> userinfo, host |-> host, path |-> path,
   query |-> query, fragment |-> fragment]

\* https://h/a, https://h/a#x, https://h/a?q, https://u@h/a?#, chrome://ext/
\* and the relative h/a#x
Urls ==
  { UrlString("https:", "", "h", "/a", "", ""),
    UrlString("https:", "", "h", "/a", "", "#x"),
    UrlString("https:", "", "h", "/a", "?q", ""),
    UrlString("https:", "u@", "h", "/a", "?", "#"),
    UrlString("chrome:", "", "ext", "/", "", ""),
    UrlString("", "", "h", "/a", "", "#x") }

NoTab == [none |-> TRUE]
Tabs == {NoTab} \cup [url : Urls]
HttpsTabs == {t \in Tabs \ {NoTab} : t.url.scheme = "https:"}

DefaultName == <<"S">>
LongName == [i \in 1..(MaxNameLength + 1) |-> "a"]
\* 100 characters behind a blank: 101 characters, 100 after trimming
PaddedName == <<" ">> \o [i \in 1..MaxNameLength |-> "a"]
\* names a rename request carries
RenameInputs == {<<" ">>, <<" ", "a", " ">>, LongName, PaddedName}

\* Serialized documents, as their characters.  The text of a page is short;
\* the bulk that makes its byte size is carried as the size, next to it.
\* <html></html>
PlainHtml == <<"<", "h", "t", "m", "l", ">", "<", "/", "h", "t", "m", "l", ">">>
\* <html a="javascript:"></html>
LinkHtml ==
  <<"<", "h", "t", "m", "l", " ", "a", "=", "\"", "j", "a", "v", "a", "s", "c", "r", "i", "p", "t",
    ":", "\"", ">", "<", "/", "h", "t", "m", "l", ">">>
\* <HTML></HTML>
UpperHtml == <<"<", "H", "T", "M", "L", ">", "<", "/", "H", "T", "M", "L", ">">>
\* <Html></Html>
MixedHtml == <<"<", "H", "t", "m", "l", ">", "<", "/", "H", "t", "m", "l", ">">>
\* <p></p>
NoRoot == <<"<", "p", ">", "<", "/", "p", ">">>
\* x<html>
LateRoot == <<"x", "<", "h", "t", "m", "l", ">">>
\* <htmlx>
HtmlPrefix == <<"<", "h", "t", "m", "l", "x", ">">>
\* <htm l>
BrokenRoot == <<"<", "h", "t", "m", " ", "l", ">">>
\* <html><script>x</script></html>
ScriptHtml ==
  <<"<", "h", "t", "m", "l", ">", "<", "s", "c", "r", "i", "p", "t", ">", "x", "<", "/",
    "s", "c", "r", "i", "p", "t", ">", "<", "/", "h", "t", "m", "l", ">">>
\* <html><SCRIPT>x</SCRIPT></html>
UpperScript ==
  <<"<", "h", "t", "m", "l", ">", "<", "S", "C", "R", "I", "P", "T", ">", "x", "<", "/",
    "S", "C", "R", "I", "P", "T", ">", "<", "/", "h", "t", "m", "l", ">">>
\* <html><script src="a"></script></html>
ScriptSrc ==
  <<"<", "h", "t", "m", "l", ">", "<", "s", "c", "r", "i", "p", "t", " ", "s", "r", "c",
    "=", "\"", "a", "\"", ">", "<", "/", "s", "c", "r", "i", "p", "t", ">", "<", "/",
    "h", "t", "m", "l", ">">>
\* <html><script></html>
OpenScript ==
  <<"<", "h", "t", "m", "l", ">", "<", "s", "c", "r", "i", "p", "t", ">", "<", "/", "h",
    "t", "m", "l", ">">>
\* <html></script><script></html>
ClosedFirst ==
  <<"<", "h", "t", "m", "l", ">", "<", "/", "s", "c", "r", "i", "p", "t", ">", "<", "s",
    "c", "r", "i", "p", "t", ">", "<", "/", "h", "t", "m", "l", ">">>
\* <html><scriptx>y</script></html>
ScriptLike ==
  <<"<", "h", "t", "m", "l", ">", "<", "s", "c", "r", "i", "p", "t", "x", ">", "y", "<",
    "/", "s", "c", "r", "i", "p", "t", ">", "<", "/", "h", "t", "m", "l", ">">>
\* <html a="JavaScript:"></html>
UpperLink ==
  <<"<", "h", "t", "m", "l", " ", "a", "=", "\"", "J", "a", "v", "a", "S", "c", "r", "i",
    "p", "t", ":", "\"", ">", "<", "/", "h", "t", "m", "l", ">">>
\* <html a="data:text/html"></html>
DataHtml ==
  <<"<", "h", "t", "m", "l", " ", "a", "=", "\"", "d", "a", "t", "a", ":", "t", "e", "x",
    "t", "/", "h", "t", "m", "l", "\"", ">", "<", "/", "h", "t", "m", "l", ">">>
\* <html a="data:text/plain"></html>
DataPlain ==
  <<"<", "h", "t", "m", "l", " ", "a", "=", "\"", "d", "a", "t", "a", ":", "t", "e", "x",
    "t", "/", "p", "l", "a", "i", "n", "\"", ">", "<", "/", "h", "t", "m", "l", ">">>
\* <SCRIPT></SCRIPT>
UpperScriptNoRoot ==
  <<"<", "S", "C", "R", "I", "P", "T", ">", "<", "/", "S", "C", "R", "I", "P", "T", ">">>

(***************************************************************************)
(* url-utils.ts: normalizeUrl, isValidUrl                                  *)
(***************************************************************************)
\* new URL(url) throws
Unparsable(url) == url.scheme = ""

\* new URL(url): protocol, host, pathname, search and hash.  The host comes
\* without the userinfo, an empty path of an http(s) URL reads "/", and a
\* bare "?" or "#" reads as the empty search or hash.
URL(url) ==
  [protocol |-> url.scheme,
   host |-> url.host,
   pathname |-> IF url.path = "" THEN "/" ELSE url.path,
   search |-> IF url.query = "?" THEN "" ELSE url.query,
   hash |-> IF url.fragment = "#" THEN "" ELSE url.fragment]

\* normalizeUrl keeping the hash
normalizeUrlKeepsHash(url) ==
  IF Unparsable(url) THEN url
  ELSE LET urlObj == URL(url)
       IN  UrlString(urlObj.protocol, "", urlObj.host, urlObj.pathname, urlObj.search,
                     urlObj.hash)

\* normalizeUrl(url): `${protocol}//${host}${pathname}${search}`, and
\* url.split('#')[0] for a string new URL() rejects
normalizeUrl(url) ==
  IF Unparsable(url) THEN [url EXCEPT !.fragment = ""]
  ELSE LET urlObj == URL(url)
       IN  UrlString(urlObj.protocol, "", urlObj.host, urlObj.pathname, urlObj.search, "")

\* isValidUrl: the blocked schemes are not http(s) either
isValidUrl(url) ==
  IF Unparsable(url) THEN FALSE ELSE URL(url).protocol \in {"http:", "https:"}

(***************************************************************************)
(* The snapshots object: a JS object keeps its keys in insertion order, so *)
(* it is a sequence of entries [url, list].                                *)
(***************************************************************************)
HasKey(snaps, k) == \E i \in 1..Len(snaps) : snaps[i].url = k

KeyIndex(snaps, k) == CHOOSE i \in 1..Len(snaps) : snaps[i].url = k

\* snapshots[k] || []
GroupOf(snaps, k) == IF HasKey(snaps, k) THEN snaps[KeyIndex(snaps, k)].list ELSE <<>>

\* snapshots[k] = list
SetGroup(snaps, k, l) ==
  IF HasKey(snaps, k)
    THEN [snaps EXCEPT ![KeyIndex(snaps, k)].list = l]
    ELSE Append(snaps, [url |-> k, list |-> l])

\* delete snapshots[k]
DeleteKey(snaps, k) == SelectSeq(snaps, LAMBDA e : e.url # k)

\* list.findIndex(s => s.id === id), 0 for -1
FindIndex(list, id) ==
  IF \E i \in 1..Len(list) : list[i].id = id
    THEN CHOOSE i \in 1..Len(list) :
           list[i].id = id /\ \A j \in 1..(i - 1) : list[j].id # id
    ELSE 0

\* list.splice(index, 1)
Splice(list, index) == [i \in 1..(Len(list) - 1) |-> IF i < index THEN list[i] ELSE list[i + 1]]

RECURSIVE Flatten(_)
\* performAutomaticCleanup: allSnapshots, in Object.entries order
Flatten(snaps) ==
  IF snaps = <<>> THEN <<>>
  ELSE [i \in 1..Len(snaps[1].list) |-> [snapshot |-> snaps[1].list[i], url |-> snaps[1].url]]
         \o Flatten(Tail(snaps))

RECURSIVE InsertSorted(_, _)
InsertSorted(sorted, e) ==
  IF sorted = <<>> THEN <<e>>
  ELSE IF sorted[Len(sorted)].snapshot.timestamp <= e.snapshot.timestamp
    THEN Append(sorted, e)
    ELSE Append(InsertSorted(SubSeq(sorted, 1, Len(sorted) - 1), e), sorted[Len(sorted)])

RECURSIVE SortPrefix(_, _)
SortPrefix(all, n) ==
  IF n = 0 THEN <<>> ELSE InsertSorted(SortPrefix(all, n - 1), all[n])

\* SortByTimestamp without the sort
Unsorted(all) == all

\* allSnapshots.sort((a, b) => a.snapshot.timestamp - b.snapshot.timestamp): stable
SortByTimestamp(all) == SortPrefix(all, Len(all))

(***************************************************************************)
(* url-utils.ts, storage service: the operations as functions from what    *)
(* chrome.storage.local.get returned to what chrome.storage.local.set is   *)
(* given.                                                                  *)
(***************************************************************************)
DEFAULT_METADATA == [totalSize |-> 0, snapshotCount |-> 0, lastCleanup |-> 0]

\* TargetReached with the limit itself as the target
TargetReachedAtLimit(currentSize, settings) == currentSize <= settings.maxTotalSize

\* currentSize <= settings.maxTotalSize * 0.8, in integers.  0.8 as a double
\* lies just above 4/5 and currentSize is an integer, so the floating-point
\* comparison and 5 * currentSize <= 4 * maxTotalSize agree.
TargetReached(currentSize, settings) == 5 * currentSize <= 4 * settings.maxTotalSize

RECURSIVE CleanupLoop(_, _, _, _, _, _)
\* the for loop of performAutomaticCleanup over the sorted allSnapshots, from
\* position i on
CleanupLoop(all, i, snaps, currentSize, removedCount, settings) ==
  IF i > Len(all) \/ TargetReached(currentSize, settings)
    THEN [snapshots |-> snaps, currentSize |-> currentSize, removedCount |-> removedCount]
    ELSE
      LET url == all[i].url
          urlSnapshots == GroupOf(snaps, url)
          index == FindIndex(urlSnapshots, all[i].snapshot.id)
          spliced == Splice(urlSnapshots, index)
      IN  IF index # 0
            THEN CleanupLoop(all, i + 1,
                   IF Len(spliced) = 0 THEN DeleteKey(snaps, url)
                                       ELSE SetGroup(snaps, url, spliced),
                   currentSize - all[i].snapshot.size, removedCount + 1, settings)
            ELSE CleanupLoop(all, i + 1, snaps, currentSize, removedCount, settings)

\* performAutomaticCleanup(snapshots, metadata, settings): the snapshots and
\* metadata objects as it leaves them; now is its Date.now() reading
performAutomaticCleanup(snaps, metadata, settings, now) ==
  LET allSnapshots == SortByTimestamp(Flatten(snaps))
      r == CleanupLoop(allSnapshots, 1, snaps, metadata.totalSize, 0, settings)
  IN  [snapshots |-> r.snapshots,
       metadata |-> [totalSize |-> r.currentSize,
                     snapshotCount |-> metadata.snapshotCount - r.removedCount,
                     lastCleanup |-> now]]

\* EvictForUrl with the metadata left as it was
EvictForUrlNoAccounting(urlSnapshots, metadata, settings) ==
  IF Len(urlSnapshots) >= settings.maxSnapshotsPerUrl /\ Len(urlSnapshots) > 0
    THEN [list |-> Tail(urlSnapshots), metadata |-> metadata]
    ELSE [list |-> urlSnapshots, metadata |-> metadata]

\* the position of the member with the smallest timestamp
OldestByTimestamp(list) ==
  CHOOSE i \in 1..Len(list) :
    /\ \A j \in 1..Len(list) : list[i].timestamp <= list[j].timestamp
    /\ \A j \in 1..(i - 1) : list[j].timestamp > list[i].timestamp

\* EvictForUrl dropping the member with the smallest timestamp
EvictForUrlByTimestamp(urlSnapshots, metadata, settings) ==
  IF Len(urlSnapshots) >= settings.maxSnapshotsPerUrl /\ Len(urlSnapshots) > 0
    THEN [list |-> Splice(urlSnapshots, OldestByTimestamp(urlSnapshots)),
          metadata |-> [metadata EXCEPT
                          !.totalSize = @ - urlSnapshots[OldestByTimestamp(urlSnapshots)].size,
                          !.snapshotCount = @ - 1]]
    ELSE [list |-> urlSnapshots, metadata |-> metadata]

\* EvictForUrl testing length > maxSnapshotsPerUrl
EvictForUrlOffByOne(urlSnapshots, metadata, settings) ==
  IF Len(urlSnapshots) > settings.maxSnapshotsPerUrl /\ Len(urlSnapshots) > 0
    THEN [list |-> Tail(urlSnapshots),
          metadata |-> [metadata EXCEPT
                          !.totalSize = @ - urlSnapshots[1].size,
                          !.snapshotCount = @ - 1]]
    ELSE [list |-> urlSnapshots, metadata |-> metadata]

\* saveSnapshot, lines 204-212: the group and the metadata after the per-URL
\* limit has been applied
EvictForUrl(urlSnapshots, metadata, settings) ==
  IF Len(urlSnapshots) >= settings.maxSnapshotsPerUrl /\ Len(urlSnapshots) > 0
    THEN [list |-> Tail(urlSnapshots),
          metadata |-> [metadata EXCEPT
                          !.totalSize = @ - urlSnapshots[1].size,
                          !.snapshotCount = @ - 1]]
    ELSE [list |-> urlSnapshots, metadata |-> metadata]

\* OverTotalLimit that never starts the cleanup
OverTotalLimitNever(metadata, settings) == FALSE

\* saveSnapshot, line 223: the test that starts the global cleanup
OverTotalLimit(metadata, settings) == metadata.totalSize > settings.maxTotalSize

\* saveSnapshot: the object given to chrome.storage.local.set, from the
\* result of the get; fullSnapshot already carries its id
saveSnapshot(result, url, fullSnapshot, now) ==
  LET normalizedUrl == normalizeUrl(url)
      ev == EvictForUrl(GroupOf(result.snapshots, normalizedUrl), result.metadata, result.settings)
      snaps == SetGroup(result.snapshots, normalizedUrl, Append(ev.list, fullSnapshot))
      metadata == [ev.metadata EXCEPT
                     !.totalSize = @ + fullSnapshot.size,
                     !.snapshotCount = @ + 1]
      cleaned == IF OverTotalLimit(metadata, result.settings)
                   THEN performAutomaticCleanup(snaps, metadata, result.settings, now)
                   ELSE [snapshots |-> snaps, metadata |-> metadata]
  IN  [snapshots |-> cleaned.snapshots, metadata |-> cleaned.metadata,
       settings |-> result.settings]

\* the entry that holds a snapshot with this id, 0 if none (the for loops of
\* getSnapshotById, deleteSnapshot and renameSnapshot stop at the first)
EntryWithId(snaps, id) ==
  IF \E i \in 1..Len(snaps) : FindIndex(snaps[i].list, id) # 0
    THEN CHOOSE i \in 1..Len(snaps) :
           /\ FindIndex(snaps[i].list, id) # 0
           /\ \A j \in 1..(i - 1) : FindIndex(snaps[j].list, id) = 0
    ELSE 0

\* deleteSnapshot leaving the key of an emptied group in place
deleteSnapshotKeepsKey(result, snapshotId) ==
  LET e == EntryWithId(result.snapshots, snapshotId)
  IN  IF e = 0 THEN [found |-> FALSE]
      ELSE LET url == result.snapshots[e].url
               urlSnapshots == result.snapshots[e].list
               index == FindIndex(urlSnapshots, snapshotId)
           IN  [found |-> TRUE,
                write |-> [snapshots |-> SetGroup(result.snapshots, url,
                                                  Splice(urlSnapshots, index)),
                           metadata |-> [result.metadata EXCEPT
                                           !.totalSize = @ - urlSnapshots[index].size,
                                           !.snapshotCount = @ - 1]]]

\* deleteSnapshot: found, and the object given to set when found
deleteSnapshot(result, snapshotId) ==
  LET e == EntryWithId(result.snapshots, snapshotId)
  IN  IF e = 0 THEN [found |-> FALSE]
      ELSE LET url == result.snapshots[e].url
               urlSnapshots == result.snapshots[e].list
               index == FindIndex(urlSnapshots, snapshotId)
               spliced == Splice(urlSnapshots, index)
           IN  [found |-> TRUE,
                write |-> [snapshots |-> IF Len(spliced) = 0
                                           THEN DeleteKey(result.snapshots, url)
                                           ELSE SetGroup(result.snapshots, url, spliced),
                           metadata |-> [result.metadata EXCEPT
                                           !.totalSize = @ - urlSnapshots[index].size,
                                           !.snapshotCount = @ - 1]]]

IsSpace(c) == c = " "

RECURSIVE TrimStart(_)
TrimStart(s) == IF s # <<>> /\ IsSpace(Head(s)) THEN TrimStart(Tail(s)) ELSE s

RECURSIVE TrimEnd(_)
TrimEnd(s) ==
  IF s # <<>> /\ IsSpace(s[Len(s)]) THEN TrimEnd(SubSeq(s, 1, Len(s) - 1)) ELSE s

\* String.prototype.trim
Trim(s) == TrimEnd(TrimStart(s))

\* renameSnapshot, lines 289-296: the error thrown, "" if none
RenameError(newName) ==
  IF Len(Trim(newName)) = 0 THEN "Snapshot name cannot be empty"
  ELSE IF Len(newName) > MaxNameLength THEN "Snapshot name cannot exceed 100 characters"
  ELSE ""

\* renameSnapshot naming every member of the group it finds the id in
renameSnapshotWholeGroup(result, snapshotId, newName) ==
  LET e == EntryWithId(result.snapshots, snapshotId)
  IN  IF e = 0 THEN [found |-> FALSE]
      ELSE [found |-> TRUE,
            write |-> [snapshots |->
                         [result.snapshots EXCEPT ![e].list =
                            [i \in 1..Len(@) |-> [@[i] EXCEPT !.name = Trim(newName)]]]]]

\* renameSnapshot, after validation: found, and the object given to set
renameSnapshot(result, snapshotId, newName) ==
  LET e == EntryWithId(result.snapshots, snapshotId)
  IN  IF e = 0 THEN [found |-> FALSE]
      ELSE LET index == FindIndex(result.snapshots[e].list, snapshotId)
           IN  [found |-> TRUE,
                write |-> [snapshots |->
                             [result.snapshots EXCEPT ![e].list[index].name = Trim(newName)]]]

RECURSIVE SumSizes(_)
\* urlSnapshots.reduce((sum, snapshot) => sum + snapshot.metadata.size, 0)
SumSizes(list) == IF list = <<>> THEN 0 ELSE list[1].size + SumSizes(Tail(list))

\* clearSnapshotsForUrl counting one snapshot less than it removed
clearSnapshotsForUrlMiscount(result, url) ==
  LET normalizedUrl == normalizeUrl(url)
      urlSnapshots == GroupOf(result.snapshots, normalizedUrl)
  IN  IF Len(urlSnapshots) > 0
        THEN [deletedCount |-> Len(urlSnapshots),
              write |-> [snapshots |-> DeleteKey(result.snapshots, normalizedUrl),
                         metadata |-> [result.metadata EXCEPT
                                         !.totalSize = @ - SumSizes(urlSnapshots),
                                         !.snapshotCount = @ - (Len(urlSnapshots) - 1)]]]
        ELSE [deletedCount |-> 0]

\* clearSnapshotsForUrl: deletedCount, and the object given to set when > 0
clearSnapshotsForUrl(result, url) ==
  LET normalizedUrl == normalizeUrl(url)
      urlSnapshots == GroupOf(result.snapshots, normalizedUrl)
  IN  IF Len(urlSnapshots) > 0
        THEN [deletedCount |-> Len(urlSnapshots),
              write |-> [snapshots |-> DeleteKey(result.snapshots, normalizedUrl),
                         metadata |-> [result.metadata EXCEPT
                                         !.totalSize = @ - SumSizes(urlSnapshots),
                                         !.snapshotCount = @ - Len(urlSnapshots)]]]
        ELSE [deletedCount |-> 0]

RECURSIVE CountAll(_)
\* clearAllSnapshots: totalDeleted
CountAll(snaps) == IF snaps = <<>> THEN 0 ELSE Len(snaps[1].list) + CountAll(Tail(snaps))

\* clearAllSnapshots writing the empty snapshots object only
clearAllSnapshotsKeepMetadata(result, now) ==
  IF CountAll(result.snapshots) > 0
    THEN [deletedCount |-> CountAll(result.snapshots),
          write |-> [snapshots |-> <<>>, settings |-> result.settings]]
    ELSE [deletedCount |-> 0]

\* clearAllSnapshots: totalDeleted, and the object given to set when > 0
clearAllSnapshots(result, now) ==
  IF CountAll(result.snapshots) > 0
    THEN [deletedCount |-> CountAll(result.snapshots),
          write |-> [snapshots |-> <<>>,
                     metadata |-> [DEFAULT_METADATA EXCEPT !.lastCleanup = now],
                     settings |-> result.settings]]
    ELSE [deletedCount |-> 0]

\* getSnapshotsForUrl
getSnapshotsForUrl(result, url) == GroupOf(result.snapshots, normalizeUrl(url))

NoSnapshot == [none |-> TRUE]

\* getSnapshotById: the snapshot, or null
getSnapshotById(result, snapshotId) ==
  LET e == EntryWithId(result.snapshots, snapshotId)
  IN  IF e = 0 THEN NoSnapshot
      ELSE result.snapshots[e].list[FindIndex(result.snapshots[e].list, snapshotId)]

\* getStorageInfo (usedPercentage = totalSize / maxSize * 100 is left to the reader)
getStorageInfo(result) ==
  [totalSize |-> result.metadata.totalSize,
   snapshotCount |-> result.metadata.snapshotCount,
   maxSize |-> result.settings.maxTotalSize]

\* chrome.storage.local.set(items): the keys named are replaced, the others kept
StorageSet(store, items) ==
  [k \in DOMAIN store |-> IF k \in DOMAIN items THEN items[k] ELSE store[k]]

(***************************************************************************)
(* dom-serializer.ts captureDOM and the content script's                   *)
(* handleCaptureRequest.  A page is the byte size of its serialization and *)
(* whether serializing it throws.                                          *)
(***************************************************************************)
ThrowingPage == [size |-> 3, text |-> PlainHtml, throws |-> TRUE]
\* the pages captured: the large one carries a javascript: link
PageText(size) == IF size = 7 THEN LinkHtml ELSE PlainHtml
Pages == {[size |-> s, text |-> PageText(s), throws |-> FALSE] : s \in PageSizes} \cup {ThrowingPage}

\* a string of HTML: its characters and its byte size (new Blob([html]).size)
DomContent(text, size) == [text |-> text, size |-> size]
NoContent == DomContent(<<>>, 0)

\* captureDOM(options): resolves with the size, or rejects with a message;
\* options.maxSize = 0 stands for an option that is not given
captureDOM(page, options) ==
  LET maxSize == IF options.maxSize = 0 THEN DefaultMaxSize ELSE options.maxSize
  IN  IF page.throws
        THEN [ok |-> FALSE, domContent |-> NoContent, size |-> 0, error |-> "serialization error"]
      ELSE IF page.size > maxSize
        THEN [ok |-> FALSE, domContent |-> NoContent, size |-> 0,
              error |-> "DOM size exceeds limit"]
        ELSE [ok |-> TRUE, domContent |-> DomContent(page.text, page.size),
              size |-> page.size, error |-> ""]

\* handleCaptureRequest(request): captureDOM is called with the content
\* script's own options; request.options is not read
handleCaptureRequest(request, page) ==
  LET result == captureDOM(page, [maxSize |-> ContentMaxSize])
  IN  [success |-> result.ok, domContent |-> result.domContent, size |-> result.size,
       error |-> result.error]

(***************************************************************************)
(* dom-serializer.ts validateDOMContent.  Strings are sequences of         *)
(* characters.                                                             *)
(***************************************************************************)
UpperCase ==
  <<"A", "B", "C", "D", "E", "F", "G", "H", "I", "J", "K", "L", "M", "N", "O", "P", "Q", "R",
    "S", "T", "U", "V", "W", "X", "Y", "Z">>
LowerCase ==
  <<"a", "b", "c", "d", "e", "f", "g", "h", "i", "j", "k", "l", "m", "n", "o", "p", "q", "r",
    "s", "t", "u", "v", "w", "x", "y", "z">>

ToLowerChar(c) ==
  IF \E i \in 1..Len(UpperCase) : UpperCase[i] = c
    THEN LowerCase[CHOOSE i \in 1..Len(UpperCase) : UpperCase[i] = c]
    ELSE c

\* String.prototype.toLowerCase
ToLowerCase(str) == [i \in 1..Len(str) |-> ToLowerChar(str[i])]

\* sub occurs in str at position i
OccursAt(str, i, sub) ==
  /\ i >= 1 /\ i + Len(sub) - 1 <= Len(str)
  /\ \A k \in 1..Len(sub) : str[i + k - 1] = sub[k]

\* str.includes(sub)
Includes(str, sub) == \E i \in 1..Len(str) : OccursAt(str, i, sub)

\* pattern.test(str) for a literal pattern with the i flag
IncludesAnyCase(str, sub) == Includes(ToLowerCase(str), ToLowerCase(sub))

HtmlTag == <<"<", "h", "t", "m", "l">>
ScriptOpen == <<"<", "s", "c", "r", "i", "p", "t">>
ScriptClose == <<"<", "/", "s", "c", "r", "i", "p", "t", ">">>
JavascriptScheme == <<"j", "a", "v", "a", "s", "c", "r", "i", "p", "t", ":">>
DataHtmlScheme == <<"d", "a", "t", "a", ":", "t", "e", "x", "t", "/", "h", "t", "m", "l">>

\* /<script[^>]*>[\s\S]*?<\/script>/gi .test(str)
MatchesScriptElement(str) ==
  LET low == ToLowerCase(str)
  IN  \E i \in 1..Len(low) :
        /\ OccursAt(low, i, ScriptOpen)
        /\ \E j \in (i + Len(ScriptOpen))..Len(low) :
             /\ low[j] = ">"
             /\ \A k \in (i + Len(ScriptOpen))..(j - 1) : low[k] # ">"
             /\ \E m \in (j + 1)..Len(low) : OccursAt(low, m, ScriptClose)

\* one of dangerousPatterns matches
Dangerous(str) ==
  \/ MatchesScriptElement(str)
  \/ IncludesAnyCase(str, JavascriptScheme)
  \/ IncludesAnyCase(str, DataHtmlScheme)

\* 10 * 1024 * 1024, the absolute maximum of validateDOMContent
ValidatorMaxSize == 10

\* !domContent.includes('<html')
MissingRoot(text) == ~Includes(text, HtmlTag)

\* validateDOMContent(domContent): isValid and the errors, in the order pushed
validateDOMContent(domContent) ==
  LET size == domContent.size
      errors ==
        (IF MissingRoot(domContent.text) THEN <<"Missing HTML root element">> ELSE <<>>)
          \o (IF size = 0 THEN <<"Empty DOM content">> ELSE <<>>)
          \o (IF size > ValidatorMaxSize THEN <<"DOM content too large">> ELSE <<>>)
          \o (IF Dangerous(domContent.text)
                THEN <<"Potentially unsafe content detected">> ELSE <<>>)
  IN  [isValid |-> Len(errors) = 0, errors |-> errors]

(***************************************************************************)
(* State                                                                   *)
(***************************************************************************)
VARIABLES
  storage,   \* chrome.storage.local: [snapshots, metadata, settings]
  nextId,    \* the next id generateSnapshotId hands out
  last,      \* the response of the handler that ran last, and what it did on the way
  procs,     \* store operations in flight between their get and their set
  started,   \* how many overlapping store operations have been started
  document,  \* the live document of the active tab, as its HTML text
  restore,   \* the restore request being handled, and what has been done for it
  input,     \* the argument of a function called on its own
  output,    \* what that call returned
  message,   \* the message the background's listener was called with last
  responses, \* the calls of sendResponse for that message, in order
  call       \* the promise-returning call in progress: its steps, timer and promise

vars ==
  <<storage, nextId, last, procs, started, document, restore, input, output, message,
    responses, call>>

\* the state of the content script's page, and of the calls made on their own
contentVars == <<document, restore>>
callVars == <<input, output>>
routerVars == <<message, responses>>

Procs == {1, 2}

\* a process of the background worker: one message being handled.  pc is
\* "idle", "pending" (its get has returned, its set is still to come) or
\* "done" (it has returned); write is what it will hand to set; id, key and
\* evicted describe a save; overlap says that another operation was between
\* its get and its set while this one was.
Idle ==
  [pc |-> "idle", type |-> "NONE", write |-> <<>>, id |-> 0, key |-> <<>>,
   evicted |-> FALSE, overlap |-> FALSE]

\* no request handled yet.  Besides the response (type, success, error,
\* snapshotId, deletedCount) the record keeps what the handler did on the way:
\* whether saveSnapshot was called, with which snapshot and under which key,
\* whether that save dropped the group's first member (evicted) or ran the
\* global cleanup (cleaned), and the error the content script answered with.
NoResponse ==
  [type |-> "NONE", success |-> FALSE, error |-> "", snapshotId |-> 0,
   deletedCount |-> 0, saveCalled |-> FALSE, evicted |-> FALSE, cleaned |-> FALSE,
   key |-> <<>>, snapshot |-> <<>>, contentError |-> ""]

\* no restore request yet.  requests counts the requests so far; pc is where the request is: "idle", "sent"
\* (CONTENT_RESTORE_DOM is on its way to the content script), "validated",
\* "confirmed", "responded" (the content script has answered) or "done" (the
\* background handler has returned).  domContent is the content sent, before
\* the document when the request arrived; confirmShown, accepted, restoreCalled
\* and notified record the confirm dialog, its answer, the restore function
\* that was called and the success notification; success and error are the
\* content script's response.
NoRestore ==
  [pc |-> "idle", domContent |-> NoContent, before |-> <<>>, confirmShown |-> FALSE,
   accepted |-> FALSE, restoreCalled |-> "none", notified |-> FALSE,
   success |-> FALSE, error |-> "", requests |-> 0]

\* the behaviours without a content script's page
NoPage ==
  /\ document = <<>>
  /\ restore = NoRestore

\* the call has not returned yet (a result with isValid false has errors)
NotCalled == [isValid |-> FALSE, errors |-> <<>>]

\* the behaviours without a function called on its own
NoCall ==
  /\ input = NoContent
  /\ output = NotCalled

\* a request that names no URL: url is ''
NoUrl == UrlString("", "", "", "", "", "")

\* no message received yet.  A message has a type and the requestId the
\* sender gave it, and the snapshotId, url and newName its type carries.
NoRequest ==
  [type |-> "NONE", requestId |-> 0, snapshotId |-> 0, url |-> NoUrl, newName |-> <<>>]

\* the behaviours without the listener
NoMessage ==
  /\ message = NoRequest
  /\ responses = <<>>

\* no promise-returning call made yet.  op is the function called; pc the
\* statement its executor is at ("returned" once the executor has returned);
\* timeout the delay given to setTimeout and timer whether that timer is
\* still set; clock the time since the call and finishedAt the clock when the
\* executor returned; promise and error the state of the promise returned;
\* steps the steps begun, in order, and failed the one that threw; mutated
\* whether the live document has been changed.
NoCallYet ==
  [op |-> "none", pc |-> "idle", preserveState |-> FALSE, timeout |-> 0, timer |-> FALSE,
   clock |-> 0, finishedAt |-> 0, promise |-> "none", error |-> "", steps |-> <<>>,
   failed |-> "", mutated |-> FALSE]

\* the behaviours without such calls
NoTimedCall == call = NoCallYet

\* the storage initializeStorage leaves, with the settings as configured
InitialStorage(perUrl, auto) ==
  [snapshots |-> <<>>,
   settings |-> [maxSnapshotsPerUrl |-> perUrl, autoCleanup |-> auto,
                 maxTotalSize |-> DefaultMaxTotalSize],
   metadata |-> DEFAULT_METADATA]

Init ==
  /\ \E i \in 1..Len(Configurations) :
       storage = InitialStorage(Configurations[i].perUrl, Configurations[i].auto)
  /\ nextId = 1
  /\ last = NoResponse
  /\ procs = [p \in Procs |-> Idle]
  /\ started = 0
  /\ NoPage
  /\ NoCall
  /\ NoMessage
  /\ NoTimedCall

(***************************************************************************)
(* background/index.ts: the handlers, one request at a time                *)
(***************************************************************************)
\* a response without a save behind it
Response(type, success, error, deletedCount) ==
  [NoResponse EXCEPT !.type = type, !.success = success, !.error = error,
                     !.deletedCount = deletedCount]

\* saveSnapshot, line 205: does this save drop the group's first member
EvictsForUrl(result, url) ==
  LET urlSnapshots == GroupOf(result.snapshots, normalizeUrl(url))
  IN  EvictForUrl(urlSnapshots, result.metadata, result.settings).list # urlSnapshots

\* saveSnapshot, line 223: does this save run performAutomaticCleanup
RunsCleanup(result, url, size) ==
  LET ev == EvictForUrl(GroupOf(result.snapshots, normalizeUrl(url)),
                        result.metadata, result.settings)
  IN  OverTotalLimit([ev.metadata EXCEPT !.totalSize = @ + size], result.settings)

\* the snapshot handleCaptureSnapshot hands to saveSnapshot, with the id
\* saveSnapshot gives it
FullSnapshot(id, now, data) ==
  [id |-> id, timestamp |-> now, name |-> DefaultName, domContent |-> data.domContent,
   size |-> data.size]

\* CaptureFailed that never sees a failure
CaptureNeverFailed(captureResponse) == FALSE

\* handleCaptureSnapshot, line 145: !captureResponse.success || !captureResponse.data
CaptureFailed(captureResponse) == ~captureResponse.success

\* handleCaptureSnapshot.  channel = "error" is sendMessageToContentScript
\* throwing; now is the Date.now() reading.
HandleCaptureSnapshot(tab, channel, page, now) ==
  LET captureResponse ==
        handleCaptureRequest([type |-> "CONTENT_CAPTURE_DOM",
                              options |-> [maxSize |-> RequestedMaxSize]], page)
      fullSnapshot == FullSnapshot(nextId, now, captureResponse)
      failed(error, contentError) ==
        /\ last' = [Response("CAPTURE_SNAPSHOT_RESPONSE", FALSE, error, 0)
                      EXCEPT !.contentError = contentError]
        /\ UNCHANGED <<storage, nextId>>
  IN  /\ UNCHANGED <<procs, started, contentVars, callVars, routerVars, call>>
      /\ IF tab = NoTab THEN failed("No active tab found", "")
         ELSE IF ~isValidUrl(tab.url) THEN failed("Cannot capture snapshots on this page", "")
         ELSE IF channel = "error" THEN failed("Could not establish connection", "")
         ELSE IF CaptureFailed(captureResponse)
           THEN failed(IF captureResponse.error # "" THEN captureResponse.error
                                                     ELSE "Failed to capture DOM",
                       captureResponse.error)
         ELSE /\ nextId <= MaxSaves
              /\ storage' = StorageSet(storage, saveSnapshot(storage, tab.url, fullSnapshot, now))
              /\ nextId' = nextId + 1
              /\ last' = [Response("CAPTURE_SNAPSHOT_RESPONSE", TRUE, "", 0) EXCEPT
                            !.snapshotId = nextId,
                            !.saveCalled = TRUE,
                            !.evicted = EvictsForUrl(storage, tab.url),
                            !.cleaned = RunsCleanup(storage, tab.url, captureResponse.size),
                            !.key = normalizeUrl(tab.url),
                            !.snapshot = fullSnapshot,
                            !.contentError = captureResponse.error]

\* handleDeleteSnapshot
HandleDeleteSnapshot(snapshotId) ==
  LET r == deleteSnapshot(storage, snapshotId)
  IN  /\ storage' = IF r.found THEN StorageSet(storage, r.write) ELSE storage
      /\ last' = Response("DELETE_SNAPSHOT_RESPONSE", r.found,
                          IF r.found THEN "" ELSE "Snapshot not found", 0)
      /\ UNCHANGED <<nextId, procs, started, contentVars, callVars, routerVars, call>>

\* handleRenameSnapshot
HandleRenameSnapshot(snapshotId, newName) ==
  LET error == RenameError(newName)
      r == renameSnapshot(storage, snapshotId, newName)
  IN  /\ IF error # ""
           THEN /\ last' = Response("RENAME_SNAPSHOT_RESPONSE", FALSE, error, 0)
                /\ UNCHANGED storage
           ELSE /\ storage' = IF r.found THEN StorageSet(storage, r.write) ELSE storage
                /\ last' = Response("RENAME_SNAPSHOT_RESPONSE", r.found,
                                    IF r.found THEN "" ELSE "Snapshot not found", 0)
      /\ UNCHANGED <<nextId, procs, started, contentVars, callVars, routerVars, call>>

\* handleClearSnapshots, with request.url given
HandleClearSnapshots(url) ==
  LET r == clearSnapshotsForUrl(storage, url)
  IN  /\ storage' = IF r.deletedCount > 0 THEN StorageSet(storage, r.write) ELSE storage
      /\ last' = Response("CLEAR_SNAPSHOTS_RESPONSE", TRUE, "", r.deletedCount)
      /\ UNCHANGED <<nextId, procs, started, contentVars, callVars, routerVars, call>>

\* handleClearAllSnapshots
HandleClearAllSnapshots(now) ==
  LET r == clearAllSnapshots(storage, now)
  IN  /\ storage' = IF r.deletedCount > 0 THEN StorageSet(storage, r.write) ELSE storage
      /\ last' = Response("CLEAR_ALL_SNAPSHOTS_RESPONSE", TRUE, "", r.deletedCount)
      /\ UNCHANGED <<nextId, procs, started, contentVars, callVars, routerVars, call>>

Ids == 1..MaxSaves

\* what a CAPTURE_SNAPSHOT request meets: the active tab, whether the content
\* script answers, the page and the clock.  Inputs the handler does not get
\* to read (the page when there is no tab to ask) are not varied.
CaptureInputs ==
  [tab : HttpsTabs, channel : {"ok"}, page : Pages, now : Times]
    \cup [tab : Tabs \ HttpsTabs, channel : {"ok"}, page : {ThrowingPage}, now : {1}]
    \cup [tab : HttpsTabs, channel : {"error"}, page : {ThrowingPage}, now : {1}]

Next ==
  \/ \E c \in CaptureInputs : HandleCaptureSnapshot(c.tab, c.channel, c.page, c.now)
  \/ \E id \in Ids : HandleDeleteSnapshot(id)
  \/ \E id \in Ids, newName \in RenameInputs : HandleRenameSnapshot(id, newName)
  \/ \E url \in Urls : HandleClearSnapshots(url)
  \/ \E now \in Times : HandleClearAllSnapshots(now)

Spec == Init /\ [][Next]_vars

(***************************************************************************)
(* The same store operations as the background worker really runs them:    *)
(* the onMessage listener starts an async handler per message and never    *)
(* waits for the previous one, so handlers interleave at their awaits.     *)
(* Each chrome.storage.local.get and each set is one atomic step.          *)
(***************************************************************************)
OtherPending(p) == \E q \in Procs \ {p} : procs[q].pc = "pending"

\* p's get returns: p carries rec on, and whoever is between get and set now
\* overlaps with p
Started(p, rec) ==
  /\ procs[p].pc # "pending"
  /\ started < MaxConcOps
  /\ started' = started + 1
  /\ procs' = [q \in Procs |->
                 IF q = p THEN [rec EXCEPT !.overlap = OtherPending(p) /\ rec.pc = "pending"]
                 ELSE IF procs[q].pc = "pending" /\ rec.pc = "pending"
                   THEN [procs[q] EXCEPT !.overlap = TRUE]
                   ELSE procs[q]]

Pending(type, write) == [Idle EXCEPT !.pc = "pending", !.type = type, !.write = write]

Done(type) == [Idle EXCEPT !.pc = "done", !.type = type]

\* saveSnapshot up to its await of chrome.storage.local.set
BeginSave(p, url, size, now) ==
  /\ nextId <= MaxConcSaves
  /\ Started(p, [Pending("save",
                            saveSnapshot(storage, url,
                              FullSnapshot(nextId, now,
                                [domContent |-> DomContent(PlainHtml, size), size |-> size]),
                              now))
                          EXCEPT !.id = nextId,
                                 !.key = normalizeUrl(url),
                                 !.evicted = EvictsForUrl(storage, url)
                                               \/ RunsCleanup(storage, url, size)])
  /\ nextId' = nextId + 1
  /\ UNCHANGED <<storage, last, contentVars, callVars, routerVars, call>>

\* deleteSnapshot up to its await of set, or to its return when nothing is found
BeginDelete(p, snapshotId) ==
  LET r == deleteSnapshot(storage, snapshotId)
  IN  /\ Started(p, IF r.found THEN Pending("delete", r.write) ELSE Done("delete"))
      /\ UNCHANGED <<storage, nextId, last, contentVars, callVars, routerVars, call>>

\* renameSnapshot up to its await of set, or to its throw or return
BeginRename(p, snapshotId, newName) ==
  LET r == renameSnapshot(storage, snapshotId, newName)
  IN  /\ Started(p, IF RenameError(newName) = "" /\ r.found
                               THEN Pending("rename", r.write) ELSE Done("rename"))
      /\ UNCHANGED <<storage, nextId, last, contentVars, callVars, routerVars, call>>

\* clearSnapshotsForUrl up to its await of set, or to its return
BeginClear(p, url) ==
  LET r == clearSnapshotsForUrl(storage, url)
  IN  /\ Started(p, IF r.deletedCount > 0 THEN Pending("clear", r.write)
                                                   ELSE Done("clear"))
      /\ UNCHANGED <<storage, nextId, last, contentVars, callVars, routerVars, call>>

\* clearAllSnapshots up to its await of set, or to its return
BeginClearAll(p, now) ==
  LET r == clearAllSnapshots(storage, now)
  IN  /\ Started(p, IF r.deletedCount > 0 THEN Pending("clearAll", r.write)
                                                   ELSE Done("clearAll"))
      /\ UNCHANGED <<storage, nextId, last, contentVars, callVars, routerVars, call>>

\* the pending chrome.storage.local.set of p, and p's return
EndSet(p) ==
  /\ procs[p].pc = "pending"
  /\ storage' = StorageSet(storage, procs[p].write)
  /\ procs' = [procs EXCEPT ![p].pc = "done", ![p].write = <<>>]
  /\ UNCHANGED <<nextId, last, started, contentVars, callVars, routerVars, call>>

\* the snapshots the overlapping saves carry, and the clock they read
ConcSizes == {3}
ConcTimes == {1}
ConcIds == 1..MaxConcSaves

\* the default-like configuration: a per-URL limit no save of these
\* behaviours reaches
InitConc ==
  /\ storage = InitialStorage(MaxConcSaves + 1, TRUE)
  /\ nextId = 1
  /\ last = NoResponse
  /\ procs = [p \in Procs |-> Idle]
  /\ started = 0
  /\ NoPage
  /\ NoCall
  /\ NoMessage
  /\ NoTimedCall

NextConc ==
  \/ \E p \in Procs, url \in {u \in Urls : isValidUrl(u)}, size \in ConcSizes,
          now \in ConcTimes :
       BeginSave(p, url, size, now)
  \/ \E p \in Procs, id \in ConcIds : BeginDelete(p, id)
  \/ \E p \in Procs, id \in ConcIds, newName \in RenameInputs : BeginRename(p, id, newName)
  \/ \E p \in Procs, url \in Urls : BeginClear(p, url)
  \/ \E p \in Procs, now \in ConcTimes : BeginClearAll(p, now)
  \/ \E p \in Procs : EndSet(p)

SpecConc == InitConc /\ [][NextConc]_vars

(***************************************************************************)
(* Restoring: handleRestoreSnapshot of the background worker and           *)
(* handleRestoreRequest of the content script, step by step, on a store    *)
(* that captures fill.  The content script handles one CONTENT_RESTORE_DOM *)
(* at a time: confirm() blocks the page, the restore functions do their    *)
(* work synchronously, and the awaits in between only yield to microtasks. *)
(***************************************************************************)
\* the document of the tab before any restore
LivePage == UpperHtml

\* the document a restore function leaves when it throws half way: the
\* snapshot's head is in, the old body still there
PartlyRestored(doc, text) == text \o doc

\* the clock the captures of these behaviours read
RestoreTimes == {1}

\* RESTORATION_CONFIG.method
RestoreMethods == {"hot-reload", "traditional"}

InitRestore ==
  /\ storage = InitialStorage(Configurations[1].perUrl, Configurations[1].auto)
  /\ nextId = 1
  /\ last = NoResponse
  /\ procs = [p \in Procs |-> Idle]
  /\ started = 0
  /\ document = LivePage
  /\ restore = NoRestore
  /\ NoCall
  /\ NoMessage
  /\ NoTimedCall

\* a capture of one of the pages, while no restore is on its way or between
\* the steps of one
CaptureForRestore(tab, page, now) ==
  /\ ~page.throws
  /\ HandleCaptureSnapshot(tab, "ok", page, now)

\* the response of handleRestoreSnapshot
RestoreResponse(success, error) == Response("RESTORE_SNAPSHOT_RESPONSE", success, error, 0)

\* handleRestoreSnapshot up to its await of sendMessageToContentScript, or
\* to its return when there is no tab, no such snapshot or no content script
BeginRestore(tab, snapshotId, channel) ==
  LET snapshot == getSnapshotById(storage, snapshotId)
      request == [NoRestore EXCEPT !.requests = restore.requests + 1, !.before = document]
      failed(error) ==
        /\ restore' = [request EXCEPT !.pc = "done", !.error = error]
        /\ last' = RestoreResponse(FALSE, error)
  IN  /\ restore.pc \in {"idle", "done"}
      /\ restore.requests < MaxRestores
      /\ IF tab = NoTab THEN failed("No active tab found")
         ELSE IF snapshot = NoSnapshot THEN failed("Snapshot not found")
         ELSE IF channel = "error" THEN failed("Could not establish connection")
         ELSE /\ restore' = [request EXCEPT !.pc = "sent", !.domContent = snapshot.domContent]
              /\ UNCHANGED last
      /\ UNCHANGED <<storage, nextId, procs, started, document, callVars, routerVars, call>>

\* ValidationFailed that never sees a failure
ValidationNeverFailed(validation) == FALSE

\* handleRestoreRequest, line 104: !validation.isValid
ValidationFailed(validation) == ~validation.isValid

\* handleRestoreRequest, lines 103-106: validateDOMContent and the throw the
\* catch block turns into the response
ContentValidate ==
  LET validation == validateDOMContent(restore.domContent)
  IN  /\ restore.pc = "sent"
      /\ restore' = IF ValidationFailed(validation)
                      THEN [restore EXCEPT !.pc = "responded", !.success = FALSE,
                                           !.error = "Invalid DOM content"]
                      ELSE [restore EXCEPT !.pc = "validated"]
      /\ UNCHANGED <<storage, nextId, last, procs, started, document, callVars, routerVars, call>>

\* ShouldRestore whatever the user answers
ShouldRestoreAlways(answer) == TRUE

\* handleRestoreRequest, line 110: shouldRestore
ShouldRestore(answer) == answer

\* handleRestoreRequest, lines 109-117: showRestoreConfirmation; answer is
\* what the user answers confirm() with
ContentConfirm(answer) ==
  LET shown == [restore EXCEPT !.confirmShown = TRUE, !.accepted = answer]
  IN  /\ restore.pc = "validated"
      /\ restore' = IF ShouldRestore(answer)
                      THEN [shown EXCEPT !.pc = "confirmed"]
                      ELSE [shown EXCEPT !.pc = "responded", !.success = FALSE,
                                         !.error = "Restoration cancelled by user"]
      /\ UNCHANGED <<storage, nextId, last, procs, started, document, callVars, routerVars, call>>

\* handleRestoreRequest, lines 120-136: restoreDOMHotReload or restoreDOM by
\* the configured method.  outcome "ok": the document is the snapshot's;
\* "throws": the function rejects, before or after it touched the document.
ContentRestore(method, outcome, touched) ==
  /\ restore.pc = "confirmed"
  /\ IF outcome = "ok"
       THEN /\ document' = restore.domContent.text
            /\ restore' = [restore EXCEPT !.pc = "responded", !.restoreCalled = method,
                                          !.success = TRUE]
       ELSE /\ document' = IF touched THEN PartlyRestored(document, restore.domContent.text)
                                      ELSE document
            /\ restore' = [restore EXCEPT !.pc = "responded", !.restoreCalled = method,
                                          !.success = FALSE,
                                          !.error = "Failed to parse snapshot DOM content"]
  /\ UNCHANGED <<storage, nextId, last, procs, started, callVars, routerVars, call>>

\* handleRestoreSnapshot from the content script's response on: the
\* notification, and the response with the content script's success and error
EndRestore ==
  /\ restore.pc = "responded"
  /\ restore' = [restore EXCEPT !.pc = "done", !.notified = restore.success]
  /\ last' = RestoreResponse(restore.success, restore.error)
  /\ UNCHANGED <<storage, nextId, procs, started, document, callVars, routerVars, call>>

NextRestore ==
  \/ \E tab \in HttpsTabs, page \in Pages, now \in RestoreTimes :
       CaptureForRestore(tab, page, now)
  \/ \E tab \in Tabs, id \in Ids, channel \in {"ok", "error"} : BeginRestore(tab, id, channel)
  \/ ContentValidate
  \/ \E answer \in BOOLEAN : ContentConfirm(answer)
  \/ \E method \in RestoreMethods, outcome \in {"ok", "throws"}, touched \in BOOLEAN :
       ContentRestore(method, outcome, touched)
  \/ EndRestore

SpecRestore == InitRestore /\ [][NextRestore]_vars

(***************************************************************************)
(* dom-serializer.ts: captureDOM, restoreDOMHotReload and restoreDOM as    *)
(* promise-returning calls with their timers.  The executor of each runs   *)
(* synchronously, statement after statement; a timer callback is a task of *)
(* its own, which the event loop runs only when no other task is running.  *)
(***************************************************************************)
\* the seconds one step of work may take: none to speak of, some, or more
\* than any of the limits
Durations == {0, 3, 11}

\* resolve(): settles a pending promise, and does nothing to a settled one
Resolve(c) == IF c.promise = "pending" THEN [c EXCEPT !.promise = "resolved"] ELSE c

\* reject(error), likewise
Reject(c, error) ==
  IF c.promise = "pending" THEN [c EXCEPT !.promise = "rejected", !.error = error] ELSE c

\* the executor returns: the catch block or the last statements of the try
\* block have cleared the timer
Return(c) == [c EXCEPT !.pc = "returned", !.timer = FALSE, !.finishedAt = c.clock]

\* a step of the executor begins and takes d seconds
Begin(c, step, d) == [c EXCEPT !.steps = Append(@, step), !.clock = @ + d]

\* the catch block of the executor: clearTimeout, reject(error)
Catch(c, step) == Return(Reject([c EXCEPT !.failed = step], "error"))

\* new Promise(executor) up to setTimeout
NewCall(op, first, timeout, preserveState) ==
  /\ call.pc \in {"idle", "returned"}
  /\ call' = [NoCallYet EXCEPT !.op = op, !.pc = first, !.timeout = timeout, !.timer = TRUE,
                               !.promise = "pending", !.preserveState = preserveState]
  /\ UNCHANGED <<storage, nextId, last, procs, started, contentVars, callVars, routerVars>>

\* a step of an executor, which leaves everything but the call alone
TimedStep(c) ==
  /\ call' = c
  /\ UNCHANGED <<storage, nextId, last, procs, started, contentVars, callVars, routerVars>>

\* captureDOM(options)
CallCaptureDOM == NewCall("captureDOM", "serialize", CaptureTimeout, FALSE)

\* captureDOM, lines 127-169: serializeNode, the size check, clearTimeout and
\* resolve, or the catch block
CaptureSerialize(d, ok) ==
  /\ call.op = "captureDOM" /\ call.pc = "serialize"
  /\ LET c == Begin(call, "serialize", d)
     IN  TimedStep(IF ok THEN Return(Resolve(c)) ELSE Catch(c, "serialize"))

\* restoreDOMHotReload with its steps in another order: the state is
\* captured after the head was updated
HotOrderCaptureLate(preserveState) ==
  IF preserveState THEN <<"parse", "updateHead", "preserve", "morphBody", "replay">>
                   ELSE <<"parse", "updateHead", "morphBody">>

\* restoreDOMHotReload, lines 190-207: the statements of the try block, in
\* their order
HotOrder(preserveState) ==
  IF preserveState THEN <<"parse", "preserve", "updateHead", "morphBody", "replay">>
                   ELSE <<"parse", "updateHead", "morphBody">>

\* the statement after step; "settle" (clearTimeout, resolve) after the last
StepAfter(step, preserveState) ==
  LET order == HotOrder(preserveState)
      i == CHOOSE i \in 1..Len(order) : order[i] = step
  IN  IF i = Len(order) THEN "settle" ELSE order[i + 1]

\* restoreDOMHotReload(domContent, options)
CallRestoreDOMHotReload(preserveState) ==
  NewCall("restoreDOMHotReload", HotOrder(preserveState)[1], RestoreTimeout, preserveState)

\* one statement of restoreDOMHotReload: it takes d seconds and returns or
\* throws; mutates says that it changes the live document
HotStep(step, d, ok, mutates) ==
  /\ call.op = "restoreDOMHotReload" /\ call.pc = step
  /\ LET c == [Begin(call, step, d) EXCEPT !.mutated = @ \/ mutates]
     IN  TimedStep(IF ok THEN [c EXCEPT !.pc = StepAfter(step, call.preserveState)]
                         ELSE Catch(c, step))

\* parser.parseFromString and the test of its result
HotParse(d, ok) == HotStep("parse", d, ok, FALSE)

\* preserveCurrentState()
HotPreserve(d, ok) == HotStep("preserve", d, ok, FALSE)

\* updateDocumentHead(snapshotDoc.head)
HotUpdateHead(d, ok) == HotStep("updateHead", d, ok, TRUE)

\* updateDocumentBody(snapshotDoc.body)
HotUpdateBody(d, ok) == HotStep("morphBody", d, ok, TRUE)

\* restorePreservedState(preservedState)
HotReplay(d, ok) == HotStep("replay", d, ok, FALSE)

\* restoreDOMHotReload, lines 206-212: clearTimeout and resolve
HotSettle ==
  /\ call.op = "restoreDOMHotReload" /\ call.pc = "settle"
  /\ TimedStep(Return(Resolve(call)))

\* restoreDOM(domContent, options)
CallRestoreDOM == NewCall("restoreDOM", "write", RestoreTimeout, FALSE)

\* restoreDOM, lines 605-620: document.open, write and close, clearTimeout
\* and resolve, or the catch block
DestructiveWrite(d, ok) ==
  /\ call.op = "restoreDOM" /\ call.pc = "write"
  /\ LET c == [Begin(call, "write", d) EXCEPT !.mutated = TRUE]
     IN  TimedStep(IF ok THEN Return(Resolve(c)) ELSE Catch(c, "write"))

\* a second passes with no task running; the event loop runs the callback of
\* a timer that is set and due: reject(new Error('... timed out ...'))
Elapse ==
  /\ call.pc = "returned"
  /\ call.clock < MaxClock
  /\ LET c == [call EXCEPT !.clock = @ + 1]
     IN  TimedStep(IF c.timer /\ c.clock >= c.timeout
                     THEN Reject([c EXCEPT !.timer = FALSE], "timeout")
                     ELSE c)

InitTimed ==
  /\ storage = InitialStorage(Configurations[1].perUrl, Configurations[1].auto)
  /\ nextId = 1
  /\ last = NoResponse
  /\ procs = [p \in Procs |-> Idle]
  /\ started = 0
  /\ NoPage
  /\ NoCall
  /\ NoMessage
  /\ call = NoCallYet

NextTimed ==
  \/ CallCaptureDOM
  \/ \E d \in Durations, ok \in BOOLEAN : CaptureSerialize(d, ok)
  \/ \E preserveState \in BOOLEAN : CallRestoreDOMHotReload(preserveState)
  \/ \E d \in Durations, ok \in BOOLEAN : HotParse(d, ok)
  \/ \E d \in Durations, ok \in BOOLEAN : HotPreserve(d, ok)
  \/ \E d \in Durations, ok \in BOOLEAN : HotUpdateHead(d, ok)
  \/ \E d \in Durations, ok \in BOOLEAN : HotUpdateBody(d, ok)
  \/ \E d \in Durations, ok \in BOOLEAN : HotReplay(d, ok)
  \/ HotSettle
  \/ CallRestoreDOM
  \/ \E d \in Durations, ok \in BOOLEAN : DestructiveWrite(d, ok)
  \/ Elapse

SpecTimed == InitTimed /\ [][NextTimed]_vars

(***************************************************************************)
(* dom-serializer.ts: morphElement on trees of element, text and comment   *)
(* nodes.  A node is a record; an element's attributes are the sequence of *)
(* its NamedNodeMap and its children the sequence of its childNodes.       *)
(***************************************************************************)
Attr(name, value) == [name |-> name, value |-> value]

ElementNode(tag, attrs, children) ==
  [kind |-> "element", tag |-> tag, attrs |-> attrs, data |-> "", children |-> children]

TextNode(data) ==
  [kind |-> "text", tag |-> "", attrs |-> <<>>, data |-> data, children |-> <<>>]

CommentNode(data) ==
  [kind |-> "comment", tag |-> "", attrs |-> <<>>, data |-> data, children |-> <<>>]

\* element.hasAttribute(name)
HasAttribute(attrs, name) == \E i \in 1..Len(attrs) : attrs[i].name = name

\* element.getAttribute(name) === value
AttributeIs(attrs, name, value) ==
  \E i \in 1..Len(attrs) : attrs[i].name = name /\ attrs[i].value = value

\* element.removeAttribute(name)
RemoveAttribute(attrs, name) == SelectSeq(attrs, LAMBDA a : a.name # name)

\* element.setAttribute(name, value): an attribute there keeps its place, a
\* new one goes last
SetAttribute(attrs, name, value) ==
  IF HasAttribute(attrs, name)
    THEN [i \in 1..Len(attrs) |-> IF attrs[i].name = name THEN Attr(name, value) ELSE attrs[i]]
    ELSE Append(attrs, Attr(name, value))

RECURSIVE isEqualNode(_, _)
\* isEqualNodeNever: no two nodes are found equal
isEqualNodeNever(a, b) == FALSE

\* a.isEqualNode(b): the same kind of node, tag and data, the same attributes
\* in any order, and children equal one by one
isEqualNode(a, b) ==
  /\ a.kind = b.kind /\ a.tag = b.tag /\ a.data = b.data
  /\ Len(a.attrs) = Len(b.attrs)
  /\ \A i \in 1..Len(a.attrs) : AttributeIs(b.attrs, a.attrs[i].name, a.attrs[i].value)
  /\ Len(a.children) = Len(b.children)
  /\ \A i \in 1..Len(a.children) : isEqualNode(a.children[i], b.children[i])

RECURSIVE RemoveOldAttributes(_, _, _)
\* morphElement, lines 376-381: the loop from the last attribute of current
\* to the first; the attributes left and the number of removeAttribute calls
RemoveOldAttributes(attrs, i, targetAttrs) ==
  IF i < 1 THEN [attrs |-> attrs, mutations |-> 0]
  ELSE IF ~HasAttribute(targetAttrs, attrs[i].name)
    THEN LET r == RemoveOldAttributes(RemoveAttribute(attrs, attrs[i].name), i - 1, targetAttrs)
         IN  [r EXCEPT !.mutations = @ + 1]
    ELSE RemoveOldAttributes(attrs, i - 1, targetAttrs)

RECURSIVE UpdateAttributes(_, _, _)
\* morphElement, lines 384-389: the loop over the attributes of target
UpdateAttributes(attrs, i, targetAttrs) ==
  IF i > Len(targetAttrs) THEN [attrs |-> attrs, mutations |-> 0]
  ELSE IF ~AttributeIs(attrs, targetAttrs[i].name, targetAttrs[i].value)
    THEN LET r == UpdateAttributes(SetAttribute(attrs, targetAttrs[i].name, targetAttrs[i].value),
                                   i + 1, targetAttrs)
         IN  [r EXCEPT !.mutations = @ + 1]
    ELSE UpdateAttributes(attrs, i + 1, targetAttrs)

\* removeChild that leaves the child where it is
RemoveChildKeeps(live, pos) == live

\* removeChild that takes out the first child
RemoveChildFirst(live, pos) == Tail(live)

\* current.removeChild(child), child being at pos among the children
RemoveChild(live, pos) == [k \in 1..(Len(live) - 1) |-> IF k < pos THEN live[k] ELSE live[k + 1]]

\* current.replaceChild(node, child), child being at pos
ReplaceChild(live, pos, node) == [live EXCEPT ![pos] = node]

\* node.cloneNode(true)
CloneNode(node) == node

Max(a, b) == IF a >= b THEN a ELSE b

RECURSIVE morphElement(_, _)
RECURSIVE MorphChildren(_, _, _, _, _)
\* morphElement, lines 395-429: the loop over the positions of
\* currentChildren (the children current had when the loop began) and
\* targetChildren, from position i on.  live is current.childNodes as it is
\* now: the children before position i have been morphed or replaced in
\* place and removed of the former children have been taken out, so the
\* child that was at position i is at i - removed.
MorphChildren(i, live, currentChildren, targetChildren, removed) ==
  IF i > Max(Len(currentChildren), Len(targetChildren))
    THEN [children |-> live, mutations |-> 0]
  ELSE
    LET hasCurrent == i <= Len(currentChildren)
        hasTarget == i <= Len(targetChildren)
        pos == i - removed
        step ==
          IF ~hasCurrent /\ hasTarget
            THEN [live |-> Append(live, CloneNode(targetChildren[i])), removed |-> removed,
                  mutations |-> 1]
          ELSE IF hasCurrent /\ ~hasTarget
            THEN [live |-> RemoveChild(live, pos), removed |-> removed + 1, mutations |-> 1]
          ELSE
            LET currentChild == live[pos]
                targetChild == targetChildren[i]
            IN  IF currentChild.kind = "text" /\ targetChild.kind = "text"
                  THEN IF currentChild.data # targetChild.data
                         THEN [live |-> [live EXCEPT ![pos].data = targetChild.data],
                               removed |-> removed, mutations |-> 1]
                         ELSE [live |-> live, removed |-> removed, mutations |-> 0]
                ELSE IF currentChild.kind = "element" /\ targetChild.kind = "element"
                          /\ currentChild.tag = targetChild.tag
                  THEN LET r == morphElement(currentChild, targetChild)
                       IN  [live |-> [live EXCEPT ![pos] = r.node], removed |-> removed,
                            mutations |-> r.mutations]
                ELSE [live |-> ReplaceChild(live, pos, CloneNode(targetChild)),
                      removed |-> removed, mutations |-> 1]
        rest == MorphChildren(i + 1, step.live, currentChildren, targetChildren, step.removed)
    IN  [rest EXCEPT !.mutations = @ + step.mutations]

\* morphElement(current, target): current as the call leaves it, and the
\* number of changes made to it and to the nodes below it
morphElement(current, target) ==
  IF isEqualNode(current, target) THEN [node |-> current, mutations |-> 0]
  ELSE
    LET removed == RemoveOldAttributes(current.attrs, Len(current.attrs), target.attrs)
        updated == UpdateAttributes(removed.attrs, 1, target.attrs)
        morphed == MorphChildren(1, current.children, current.children, target.children, 0)
    IN  [node |-> [current EXCEPT !.attrs = updated.attrs, !.children = morphed.children],
         mutations |-> removed.mutations + updated.mutations + morphed.mutations]

\* the nodes the trees are built from: text, a comment, an element with an
\* attribute, and elements with children of their own
MorphLeaves ==
  {TextNode("x"), TextNode("y"), CommentNode("c"),
   ElementNode("span", <<Attr("a", "1")>>, <<>>),
   ElementNode("div", <<>>, <<CommentNode("c"), TextNode("x")>>),
   ElementNode("div", <<Attr("a", "1")>>, <<TextNode("x")>>)}

\* the attributes of the roots: none, one, and the same two in either order
MorphAttrs ==
  {<<>>, <<Attr("a", "1")>>, <<Attr("a", "2"), Attr("b", "1")>>,
   <<Attr("b", "1"), Attr("a", "2")>>}

\* the children of a root: none, one, or two of these nodes
MorphChildLists ==
  {<<>>} \cup {<<a>> : a \in MorphLeaves} \cup {<<a, b>> : a, b \in MorphLeaves}

\* document.body and snapshotDoc.body, or any two elements with one tag
MorphRoots ==
  {ElementNode("body", attrs, children) : attrs \in MorphAttrs, children \in MorphChildLists}

\* morphElement has not been called yet
NotMorphed == [node |-> TextNode(""), mutations |-> 0, calls |-> 0]

\* what the call numbered calls returned
Morphed(r, calls) == [node |-> r.node, mutations |-> r.mutations, calls |-> calls]

InitMorph ==
  /\ storage = InitialStorage(Configurations[1].perUrl, Configurations[1].auto)
  /\ nextId = 1
  /\ last = NoResponse
  /\ procs = [p \in Procs |-> Idle]
  /\ started = 0
  /\ NoPage
  /\ NoMessage
  /\ NoTimedCall
  /\ input \in [live : MorphRoots, target : MorphRoots, before : {TextNode("")}]
  /\ output = NotMorphed

\* morphElement(live, target); before is the live tree as it was
Morph ==
  /\ output.calls = 0
  /\ output' = Morphed(morphElement(input.live, input.target), 1)
  /\ input' = [input EXCEPT !.live = output'.node, !.before = input.live]
  /\ UNCHANGED <<storage, nextId, last, procs, started, contentVars, routerVars, call>>

\* morphElement(live, target) a second time, right after the first
MorphAgain ==
  /\ output.calls = 1
  /\ output' = Morphed(morphElement(input.live, input.target), 2)
  /\ input' = [input EXCEPT !.live = output'.node, !.before = input.live]
  /\ UNCHANGED <<storage, nextId, last, procs, started, contentVars, routerVars, call>>

NextMorph ==
  \/ Morph
  \/ MorphAgain

SpecMorph == InitMorph /\ [][NextMorph]_vars

(***************************************************************************)
(* dom-serializer.ts: preserveCurrentState and restorePreservedState on    *)
(* the form fields of a page.  fields is what                              *)
(* querySelectorAll('input, textarea, select') returns, in document order; *)
(* a field is its id and name attributes, its type, and its value, checked *)
(* and selectedIndex properties.                                           *)
(***************************************************************************)
Field(id, name, type, value, checked, selectedIndex) ==
  [id |-> id, name |-> name, type |-> type, value |-> value, checked |-> checked,
   selectedIndex |-> selectedIndex]

\* `input-${index}`, for the indexes of the pages of the model
PositionalKeys == <<"input-0", "input-1">>

\* key.startsWith('input-') with a number after it
IsPositionalKey(key) == \E i \in 1..Len(PositionalKeys) : PositionalKeys[i] = key

\* parseInt(key.split('-')[1]), as a position counted from 1
ParseIndex(key) == CHOOSE i \in 1..Len(PositionalKeys) : PositionalKeys[i] = key

\* preserveCurrentState, line 280: element.id || element.name || `input-${index}`
KeyOf(field, pos) ==
  IF field.id # "" THEN field.id
  ELSE IF field.name # "" THEN field.name
  ELSE PositionalKeys[pos]

IsCheckable(field) == field.type \in {"checkbox", "radio"}

\* preserveCurrentState, lines 282-297: the state kept of one field.  has
\* names the property kept besides value.
InputState(field) ==
  [value |-> field.value, checked |-> field.checked, selectedIndex |-> field.selectedIndex,
   has |-> IF IsCheckable(field) THEN "checked"
           ELSE IF field.type = "select" THEN "selectedIndex" ELSE "none"]

\* state.inputs[key] = value: an object keeps a key where it was first set
SetKey(entries, key, value) ==
  IF \E i \in 1..Len(entries) : entries[i].key = key
    THEN [i \in 1..Len(entries) |->
            IF entries[i].key = key THEN [key |-> key, value |-> value] ELSE entries[i]]
    ELSE Append(entries, [key |-> key, value |-> value])

RECURSIVE PreserveInputs(_, _, _)
\* preserveCurrentState, lines 278-299: state.inputs, from position pos on
PreserveInputs(fields, pos, inputs) ==
  IF pos > Len(fields) THEN inputs
  ELSE PreserveInputs(fields, pos + 1,
                      SetKey(inputs, KeyOf(fields[pos], pos), InputState(fields[pos])))

\* new FormData(form): the named fields of the form, the unchecked
\* checkboxes and radio buttons left out
InFormData(field) == field.name # "" /\ (IsCheckable(field) => field.checked)

RECURSIVE FormObject(_, _, _)
\* preserveCurrentState, lines 305-309: formObj, from position pos on
FormObject(fields, pos, formObj) ==
  IF pos > Len(fields) THEN formObj
  ELSE FormObject(fields, pos + 1,
                  IF InFormData(fields[pos])
                    THEN SetKey(formObj, fields[pos].name, fields[pos].value)
                    ELSE formObj)

\* preserveCurrentState: the inputs and, when the fields are in a form, the
\* form's data
preserveCurrentState(fields, inForm) ==
  [inputs |-> PreserveInputs(fields, 1, <<>>),
   forms |-> IF inForm THEN FormObject(fields, 1, <<>>) ELSE <<>>,
   inForm |-> inForm]

\* the first position where test holds, or 0
FirstWhere(fields, test(_)) ==
  IF \E i \in 1..Len(fields) : test(fields[i])
    THEN CHOOSE i \in 1..Len(fields) : test(fields[i]) /\ \A j \in 1..(i - 1) : ~test(fields[j])
    ELSE 0

\* restorePreservedState, lines 474-487: the element a key leads to, as a
\* position, or 0: getElementById, then the index of a positional key, then
\* the first element with that name
FindElement(fields, key) ==
  LET byId == FirstWhere(fields, LAMBDA f : f.id = key)
      byIndex == IF byId = 0 /\ IsPositionalKey(key) /\ ParseIndex(key) <= Len(fields)
                   THEN ParseIndex(key) ELSE byId
  IN  IF byIndex # 0 THEN byIndex ELSE FirstWhere(fields, LAMBDA f : f.name = key)

\* input.checked = checked: checking a radio button unchecks the others of
\* its group
SetChecked(fields, pos, checked) ==
  [i \in 1..Len(fields) |->
     IF i = pos THEN [fields[i] EXCEPT !.checked = checked]
     ELSE IF checked /\ fields[pos].type = "radio" /\ fields[i].type = "radio"
             /\ fields[pos].name # "" /\ fields[i].name = fields[pos].name
       THEN [fields[i] EXCEPT !.checked = FALSE]
       ELSE fields[i]]

\* restorePreservedState, lines 489-505: the state written to the element
ApplyInputState(fields, pos, inputState) ==
  LET valued == [fields EXCEPT ![pos].value = inputState.value]
  IN  IF IsCheckable(fields[pos])
        THEN IF inputState.has = "checked" THEN SetChecked(valued, pos, inputState.checked)
                                          ELSE valued
      ELSE IF fields[pos].type = "select"
        THEN IF inputState.has = "selectedIndex"
               THEN [valued EXCEPT ![pos].selectedIndex = inputState.selectedIndex]
               ELSE valued
      ELSE valued

RECURSIVE RestoreInputs(_, _, _)
\* restorePreservedState, lines 473-510: the loop over state.inputs
RestoreInputs(fields, inputs, k) ==
  IF k > Len(inputs) THEN fields
  ELSE LET pos == FindElement(fields, inputs[k].key)
       IN  RestoreInputs(IF pos # 0 THEN ApplyInputState(fields, pos, inputs[k].value)
                                    ELSE fields,
                         inputs, k + 1)

RECURSIVE RestoreForm(_, _, _)
\* restorePreservedState, lines 513-527: the form data written to the first
\* field of each name, when that field has no value
RestoreForm(fields, formObj, k) ==
  IF k > Len(formObj) THEN fields
  ELSE LET pos == FirstWhere(fields, LAMBDA f : f.name = formObj[k].key)
       IN  RestoreForm(IF pos # 0 /\ fields[pos].value = ""
                         THEN [fields EXCEPT ![pos].value = formObj[k].value]
                         ELSE fields,
                       formObj, k + 1)

\* restorePreservedState(state), on the fields of the document as the morph
\* left them
restorePreservedState(fields, state) ==
  LET restored == RestoreInputs(fields, state.inputs, 1)
  IN  IF state.inForm THEN RestoreForm(restored, state.forms, 1) ELSE restored

\* the pages: the id, name and type of each field.  Fields with ids, with
\* names, with neither, a radio group with and without ids, text fields
\* that share a name, an id that is another field's name, and an id that
\* reads like a positional key.
FieldLayouts ==
  { <<Field("i", "", "text", "", FALSE, 0), Field("j", "", "checkbox", "", FALSE, 0)>>,
    <<Field("", "n", "text", "", FALSE, 0), Field("", "m", "select", "", FALSE, 0)>>,
    <<Field("", "", "text", "", FALSE, 0), Field("", "", "select", "", FALSE, 0)>>,
    <<Field("", "n", "radio", "", FALSE, 0), Field("", "n", "radio", "", FALSE, 0)>>,
    <<Field("i", "n", "radio", "", FALSE, 0), Field("j", "n", "radio", "", FALSE, 0)>>,
    <<Field("i", "n", "text", "", FALSE, 0), Field("j", "n", "text", "", FALSE, 0)>>,
    <<Field("n", "", "text", "", FALSE, 0), Field("", "n", "text", "", FALSE, 0)>>,
    <<Field("input-1", "", "text", "", FALSE, 0), Field("", "", "text", "", FALSE, 0)>> }

\* the values a field of that type may have
FieldStates(field) ==
  IF IsCheckable(field)
    THEN {[field EXCEPT !.value = v, !.checked = c] : v \in {"a", "b"}, c \in BOOLEAN}
  ELSE IF field.type = "select"
    THEN {[field EXCEPT !.value = "a", !.selectedIndex = 0],
          [field EXCEPT !.value = "b", !.selectedIndex = 1]}
  ELSE {[field EXCEPT !.value = v] : v \in {"", "a", "b"}}

\* at most one radio button of a group is checked
RadioGroupsValid(fields) ==
  \A i, j \in 1..Len(fields) :
    (i # j /\ fields[i].type = "radio" /\ fields[j].type = "radio"
       /\ fields[i].name = fields[j].name)
      => ~(fields[i].checked /\ fields[j].checked)

\* the fields of a layout with every combination of values
FieldsOf(layout) ==
  {fields \in [1..Len(layout) -> UNION {FieldStates(layout[i]) : i \in 1..Len(layout)}] :
     /\ \A i \in 1..Len(layout) : fields[i] \in FieldStates(layout[i])
     /\ RadioGroupsValid(fields)}

\* a hot restoration: the fields before it (live), the same fields as the
\* head update and the body morph left them (morphed: each with the value
\* it had or the snapshot's), and whether they are in a form that the
\* replay finds
ReplayInputs ==
  UNION {[live : FieldsOf(layout), morphed : FieldsOf(layout), inForm : BOOLEAN] :
           layout \in FieldLayouts}

\* restorePreservedState has not been called yet
NotReplayed == [fields |-> <<>>, done |-> FALSE]

InitReplay ==
  /\ storage = InitialStorage(Configurations[1].perUrl, Configurations[1].auto)
  /\ nextId = 1
  /\ last = NoResponse
  /\ procs = [p \in Procs |-> Idle]
  /\ started = 0
  /\ NoPage
  /\ NoMessage
  /\ NoTimedCall
  /\ input \in ReplayInputs
  /\ output = NotReplayed

\* restoreDOMHotReload with preserveState: preserveCurrentState before the
\* document is changed, restorePreservedState after
Replay ==
  /\ ~output.done
  /\ output' = [fields |-> restorePreservedState(input.morphed,
                                                 preserveCurrentState(input.live, input.inForm)),
                done |-> TRUE]
  /\ UNCHANGED <<storage, nextId, last, procs, started, contentVars, input, routerVars, call>>

NextReplay == Replay

SpecReplay == InitReplay /\ [][NextReplay]_vars

(***************************************************************************)
(* dom-serializer.ts: serializeNode, and the HTML parser that              *)
(* document.write and DOMParser run on its output.  Strings are sequences  *)
(* of characters; tag names are kept as the DOM keeps them, in upper case. *)
(* The parser is the part of the HTML parsing algorithm that the           *)
(* serializer's output of these trees exercises: doctype, start and end    *)
(* tags with double-quoted attributes, comments, text with character       *)
(* references, raw text in style, void elements.                           *)
(***************************************************************************)
\* String.prototype.toUpperCase, one character
ToUpperChar(c) ==
  IF \E i \in 1..Len(LowerCase) : LowerCase[i] = c
    THEN UpperCase[CHOOSE i \in 1..Len(LowerCase) : LowerCase[i] = c]
    ELSE c

\* String.prototype.toUpperCase
ToUpperCase(str) == [i \in 1..Len(str) |-> ToUpperChar(str[i])]

IsLetter(c) == \E i \in 1..Len(LowerCase) : LowerCase[i] = c \/ UpperCase[i] = c

IsAlphanumeric(c) == IsLetter(c) \/ c \in {"0", "1", "2", "3", "4", "5", "6", "7", "8", "9"}

RECURSIVE ReplaceAll(_, _, _)
\* str.replace(/c/g, replacement) for a one-character pattern
ReplaceAll(str, c, replacement) ==
  IF str = <<>> THEN <<>>
  ELSE (IF Head(str) = c THEN replacement ELSE <<Head(str)>>)
         \o ReplaceAll(Tail(str), c, replacement)

\* &amp;
AmpEntity == <<"&", "a", "m", "p", ";">>
\* &lt;
LtEntity == <<"&", "l", "t", ";">>
\* &gt;
GtEntity == <<"&", "g", "t", ";">>
\* &quot;
QuotEntity == <<"&", "q", "u", "o", "t", ";">>

\* serializeNode, line 99: the text of a text node, escaped
EscapeText(text) == ReplaceAll(ReplaceAll(ReplaceAll(text, "&", AmpEntity), "<", LtEntity), ">", GtEntity)

\* serializeNode, line 57: the value of an attribute, escaped
EscapeAttributeValue(value) == ReplaceAll(value, "\"", QuotEntity)

\* script
ScriptTagName == <<"s", "c", "r", "i", "p", "t">>
\* style
StyleTagName == <<"s", "t", "y", "l", "e">>

\* serializeNode, lines 63-77: selfClosingTags
SelfClosingTags ==
  {<<"i", "m", "g">>,
   <<"b", "r">>,
   <<"h", "r">>,
   <<"i", "n", "p", "u", "t">>,
   <<"m", "e", "t", "a">>,
   <<"l", "i", "n", "k">>,
   <<"a", "r", "e", "a">>,
   <<"b", "a", "s", "e">>,
   <<"c", "o", "l">>,
   <<"e", "m", "b", "e", "d">>,
   <<"s", "o", "u", "r", "c", "e">>,
   <<"t", "r", "a", "c", "k">>,
   <<"w", "b", "r">>}

\* <!DOCTYPE 
DoctypeOpen == <<"<", "!", "D", "O", "C", "T", "Y", "P", "E", " ">>
\* <!--
CommentOpen == <<"<", "!", "-", "-">>
\* -->
CommentClose == <<"-", "-", ">">>
\* HTML
HtmlTagName == <<"H", "T", "M", "L">>

\* a DocumentType node; data is its name
DoctypeNode(name) ==
  [kind |-> "doctype", tag |-> "", attrs |-> <<>>, data |-> name, children |-> <<>>]

\* the elements whose content the tokenizer reads as raw text
RawTextTags == {StyleTagName}

\* the void elements of HTML: a start tag of these has no content
VoidElements ==
  {<<"a", "r", "e", "a">>,
   <<"b", "a", "s", "e">>,
   <<"b", "r">>,
   <<"c", "o", "l">>,
   <<"e", "m", "b", "e", "d">>,
   <<"h", "r">>,
   <<"i", "m", "g">>,
   <<"i", "n", "p", "u", "t">>,
   <<"l", "i", "n", "k">>,
   <<"m", "e", "t", "a">>,
   <<"s", "o", "u", "r", "c", "e">>,
   <<"t", "r", "a", "c", "k">>,
   <<"w", "b", "r">>}

RECURSIVE SerializeAttributes(_, _)
\* serializeNode, lines 55-59: the loop over element.attributes
SerializeAttributes(attrs, i) ==
  IF i > Len(attrs) THEN <<>>
  ELSE <<" ">> \o attrs[i].name \o <<"=", "\"">> \o EscapeAttributeValue(attrs[i].value)
         \o <<"\"">> \o SerializeAttributes(attrs, i + 1)

RECURSIVE TextContent(_)
\* node.textContent: the text of the text nodes below an element, a text
\* node's or a comment's own
TextContent(node) ==
  IF node.kind # "element" THEN node.data
  ELSE LET texts == [i \in 1..Len(node.children) |->
                       IF node.children[i].kind = "comment" THEN <<>>
                       ELSE TextContent(node.children[i])]
           Join[i \in 0..Len(texts)] == IF i = 0 THEN <<>> ELSE Join[i - 1] \o texts[i]
       IN  Join[Len(texts)]

\* element.children.length === 0
NoElementChildren(node) == \A i \in 1..Len(node.children) : node.children[i].kind # "element"

\* the options captureDOM runs serializeNode with
CaptureOptions == [includeStyles |-> TRUE, includeScripts |-> FALSE]

RECURSIVE serializeNode(_, _)
\* serializeNode(node, options)
serializeNode(node, options) ==
  IF node.kind = "element"
    THEN LET tagName == ToLowerCase(node.tag)
             html == <<"<">> \o tagName \o SerializeAttributes(node.attrs, 1)
             children == [i \in 1..Len(node.children) |->
                            serializeNode(node.children[i], options)]
             Join[i \in 0..Len(children)] == IF i = 0 THEN <<>> ELSE Join[i - 1] \o children[i]
         IN  IF tagName = ScriptTagName /\ ~options.includeScripts THEN <<>>
             ELSE IF tagName = StyleTagName /\ ~options.includeStyles THEN <<>>
             ELSE IF NoElementChildren(node) /\ TextContent(node) = <<>>
                       /\ tagName \in SelfClosingTags
               THEN html \o <<" ", "/", ">">>
             ELSE html \o <<">">> \o Join[Len(children)] \o <<"<", "/">> \o tagName \o <<">">>
  ELSE IF node.kind = "text" THEN EscapeText(node.data)
  ELSE IF node.kind = "comment" THEN <<"<", "!", "-", "-">> \o node.data \o <<"-", "-", ">">>
  ELSE IF node.kind = "doctype" THEN DoctypeOpen \o node.data \o <<">">>
  ELSE <<>>

\* captureDOM, lines 131-138: the doctype, when the document has one, and
\* the document element
SerializeDocument(doc, options) ==
  (IF doc.doctype # <<>> THEN serializeNode(DoctypeNode(doc.doctype), options) ELSE <<>>)
    \o serializeNode(doc.documentElement, options)

\* the first place from i on where sub occurs in str, or 0
IndexOfFrom(str, i, sub) ==
  IF \E k \in i..Len(str) : OccursAt(str, k, sub)
    THEN CHOOSE k \in i..Len(str) : OccursAt(str, k, sub) /\ \A j \in i..(k - 1) : ~OccursAt(str, j, sub)
    ELSE 0

\* the first place from i on where a character of set stands, or Len(str) + 1
IndexOfAny(str, i, set) ==
  IF \E k \in i..Len(str) : str[k] \in set
    THEN CHOOSE k \in i..Len(str) : str[k] \in set /\ \A j \in i..(k - 1) : str[j] \notin set
    ELSE Len(str) + 1

\* the named character references the parser knows of: the name and the
\* character it stands for (all four may go without their semicolon)
NamedReferences ==
  <<[name |-> <<"a", "m", "p">>, char |-> "&"], [name |-> <<"l", "t">>, char |-> "<"],
    [name |-> <<"g", "t">>, char |-> ">"], [name |-> <<"q", "u", "o", "t">>, char |-> "\""]>>

RECURSIVE DecodeReferences(_, _, _)
\* the character reference state of the tokenizer, over str from i on: a
\* named reference becomes its character; one without semicolon is left as
\* it is in an attribute value when a letter, a digit or = follows
DecodeReferences(str, i, inAttribute) ==
  IF i > Len(str) THEN <<>>
  ELSE IF str[i] = "&" /\ \E r \in 1..Len(NamedReferences) : OccursAt(str, i + 1, NamedReferences[r].name)
    THEN LET r == CHOOSE r \in 1..Len(NamedReferences) :
                    OccursAt(str, i + 1, NamedReferences[r].name)
             after == i + 1 + Len(NamedReferences[r].name)
             semicolon == after <= Len(str) /\ str[after] = ";"
             kept == /\ inAttribute /\ ~semicolon /\ after <= Len(str)
                     /\ (IsAlphanumeric(str[after]) \/ str[after] = "=")
         IN  IF kept THEN <<"&">> \o DecodeReferences(str, i + 1, inAttribute)
             ELSE <<NamedReferences[r].char>>
                    \o DecodeReferences(str, IF semicolon THEN after + 1 ELSE after, inAttribute)
  ELSE <<str[i]>> \o DecodeReferences(str, i + 1, inAttribute)

RECURSIVE TokenizeAttributes(_, _, _)
\* the attribute name and value states, from i on, after the tag name: the
\* attributes, whether the tag ends in />, and the place after the tag
TokenizeAttributes(str, i, attrs) ==
  IF i > Len(str) THEN [attrs |-> attrs, selfClosing |-> FALSE, next |-> i]
  ELSE IF str[i] = " " THEN TokenizeAttributes(str, i + 1, attrs)
  ELSE IF str[i] = ">" THEN [attrs |-> attrs, selfClosing |-> FALSE, next |-> i + 1]
  ELSE IF str[i] = "/" /\ i < Len(str) /\ str[i + 1] = ">"
    THEN [attrs |-> attrs, selfClosing |-> TRUE, next |-> i + 2]
  ELSE IF str[i] = "/" THEN TokenizeAttributes(str, i + 1, attrs)
  ELSE
    LET nameEnd == IndexOfAny(str, i + 1, {"=", " ", ">", "/"})
        name == ToLowerCase(SubSeq(str, i, nameEnd - 1))
        quoted == nameEnd < Len(str) /\ str[nameEnd] = "=" /\ str[nameEnd + 1] = "\""
        valueEnd == IF quoted THEN IndexOfAny(str, nameEnd + 2, {"\""})
                    ELSE IndexOfAny(str, nameEnd + 1, {" ", ">"})
        value == IF quoted THEN SubSeq(str, nameEnd + 2, valueEnd - 1)
                 ELSE IF nameEnd <= Len(str) /\ str[nameEnd] = "="
                   THEN SubSeq(str, nameEnd + 1, valueEnd - 1)
                 ELSE <<>>
        next == IF quoted THEN valueEnd + 1
                ELSE IF nameEnd <= Len(str) /\ str[nameEnd] = "=" THEN valueEnd
                ELSE nameEnd
        attr == [name |-> name, value |-> DecodeReferences(value, 1, TRUE)]
    IN  TokenizeAttributes(str, next,
                           IF HasAttribute(attrs, name) THEN attrs ELSE Append(attrs, attr))

RECURSIVE Tokenize(_, _, _)
\* the tokenizer, over str from i on; raw is the tag name whose end tag ends
\* the raw text the tokenizer is in, or <<>>
Tokenize(str, i, raw) ==
  IF i > Len(str) THEN <<>>
  ELSE IF raw # <<>>
    THEN LET k == IndexOfFrom(ToLowerCase(str), i, <<"<", "/">> \o raw)
             end == IF k = 0 THEN Len(str) + 1 ELSE k
         IN  (IF end > i THEN <<[type |-> "text", data |-> SubSeq(str, i, end - 1)]>> ELSE <<>>)
               \o Tokenize(str, end, <<>>)
  ELSE IF OccursAt(str, i, CommentOpen)
    THEN LET k == IndexOfFrom(str, i + Len(CommentOpen), CommentClose)
             end == IF k = 0 THEN Len(str) + 1 ELSE k
         IN  <<[type |-> "comment", data |-> SubSeq(str, i + Len(CommentOpen), end - 1)]>>
               \o Tokenize(str, end + Len(CommentClose), <<>>)
  ELSE IF OccursAt(ToUpperCase(str), i, DoctypeOpen)
    THEN LET end == IndexOfAny(str, i, {">"})
         IN  <<[type |-> "doctype", data |-> ToLowerCase(SubSeq(str, i + Len(DoctypeOpen), end - 1))]>>
               \o Tokenize(str, end + 1, <<>>)
  ELSE IF str[i] = "<" /\ i + 1 < Len(str) /\ str[i + 1] = "/" /\ IsLetter(str[i + 2])
    THEN LET end == IndexOfAny(str, i, {">"})
         IN  <<[type |-> "end",
                name |-> ToLowerCase(SubSeq(str, i + 2, IndexOfAny(str, i + 2, {">", " ", "/"}) - 1))]>>
               \o Tokenize(str, end + 1, <<>>)
  ELSE IF str[i] = "<" /\ i < Len(str) /\ IsLetter(str[i + 1])
    THEN LET nameEnd == IndexOfAny(str, i + 1, {" ", "/", ">"})
             name == ToLowerCase(SubSeq(str, i + 1, nameEnd - 1))
             rest == TokenizeAttributes(str, nameEnd, <<>>)
         IN  <<[type |-> "start", name |-> name, attrs |-> rest.attrs,
                selfClosing |-> rest.selfClosing]>>
               \o Tokenize(str, rest.next, IF name \in RawTextTags THEN name ELSE <<>>)
  ELSE LET end == IndexOfAny(str, i + 1, {"<"})
       IN  <<[type |-> "text", data |-> DecodeReferences(SubSeq(str, i, end - 1), 1, FALSE)]>>
             \o Tokenize(str, end, <<>>)

\* a text node is appended: to the text node before it, when there is one
AppendText(nodes, data) ==
  IF nodes # <<>> /\ nodes[Len(nodes)].kind = "text"
    THEN [nodes EXCEPT ![Len(nodes)].data = @ \o data]
    ELSE Append(nodes, TextNode(data))

RECURSIVE BuildNodes(_, _, _, _)
\* the tree construction, over tokens from i on, inside the element open
\* (<<>> at the top): the children built and the place after them.  A void
\* element gets no children; an end tag that matches no open element is
\* dropped; the end of the input closes what is open.
BuildNodes(tokens, i, open, nodes) ==
  IF i > Len(tokens) THEN [nodes |-> nodes, next |-> i]
  ELSE LET token == tokens[i]
       IN  IF token.type = "end"
             THEN IF token.name = open THEN [nodes |-> nodes, next |-> i + 1]
                  ELSE BuildNodes(tokens, i + 1, open, nodes)
           ELSE IF token.type = "text"
             THEN BuildNodes(tokens, i + 1, open, AppendText(nodes, token.data))
           ELSE IF token.type = "comment"
             THEN BuildNodes(tokens, i + 1, open, Append(nodes, CommentNode(token.data)))
           ELSE IF token.type = "doctype"
             THEN BuildNodes(tokens, i + 1, open, Append(nodes, DoctypeNode(token.data)))
           ELSE IF token.name \in VoidElements
             THEN BuildNodes(tokens, i + 1, open,
                             Append(nodes, ElementNode(ToUpperCase(token.name), token.attrs, <<>>)))
           ELSE LET inner == BuildNodes(tokens, i + 1, token.name, <<>>)
                IN  BuildNodes(tokens, inner.next, open,
                               Append(nodes, ElementNode(ToUpperCase(token.name), token.attrs,
                                                         inner.nodes)))

\* document.open(); document.write(html); document.close(), or
\* parseFromString(html, 'text/html'): the document parsed from html
ParseDocument(html) ==
  LET nodes == BuildNodes(Tokenize(html, 1, <<>>), 1, <<>>, <<>>).nodes
      doctypes == SelectSeq(nodes, LAMBDA n : n.kind = "doctype")
      elements == SelectSeq(nodes, LAMBDA n : n.kind = "element")
  IN  [doctype |-> IF doctypes = <<>> THEN <<>> ELSE doctypes[1].data,
       documentElement |-> IF elements = <<>> THEN ElementNode(HtmlTagName, <<>>, <<>>)
                           ELSE elements[1]]

\* HEAD
HeadTagName == <<"H", "E", "A", "D">>
\* BODY
BodyTagName == <<"B", "O", "D", "Y">>
\* DIV
DivTagName == <<"D", "I", "V">>
\* BR
BrTagName == <<"B", "R">>
\* STYLE
StyleTagUpper == <<"S", "T", "Y", "L", "E">>
\* the name of the doctype: html
HtmlName == <<"h", "t", "m", "l">>
\* class
ClassName == <<"c", "l", "a", "s", "s">>
\* x
PlainText == <<"x">>
\* a&b
AmpText == <<"a", "&", "b">>
\* a<b
LtText == <<"a", "<", "b">>
\* a>b
GtText == <<"a", ">", "b">>
\* &lt;
EntityText == <<"&", "l", "t", ";">>
\* v
PlainValue == <<"v">>
\* a"b
QuoteValue == <<"a", "\"", "b">>
\* a&b
AmpValue == <<"a", "&", "b">>
\* a&amp;b
EntityValue == <<"a", "&", "a", "m", "p", ";", "b">>
\* p{}
PlainStyle == <<"p", "{", "}">>
\* a>b{}
ChildStyle == <<"a", ">", "b", "{", "}">>
\* c
CommentText == <<"c">>

\* the text of the text nodes, the values of the attributes and the style
\* sheets of the trees
RoundTripTexts == {PlainText, AmpText, LtText, GtText, EntityText}
RoundTripValues == {PlainValue, QuoteValue, AmpValue, EntityValue}
RoundTripStyles == {<<>>, PlainStyle, ChildStyle}

\* the children of body, around one text: the text alone, the text in an
\* element after a comment and before a void element, and none
BodyChildren(text) ==
  {<<>>, <<TextNode(text)>>,
   <<CommentNode(CommentText), ElementNode(DivTagName, <<>>, <<TextNode(text)>>),
     ElementNode(BrTagName, <<>>, <<>>)>>}

\* the documents: html with head (with or without a style element) and a
\* body with a class attribute; none has a script element
RoundTripDocuments ==
  {[doctype |-> doctype,
    documentElement |->
      ElementNode(HtmlTagName, <<>>,
        <<ElementNode(HeadTagName, <<>>,
                      IF style = <<>> THEN <<>>
                      ELSE <<ElementNode(StyleTagUpper, <<>>, <<TextNode(style)>>)>>),
          ElementNode(BodyTagName, <<Attr(ClassName, value)>>, children)>>)] :
     doctype \in {<<>>, HtmlName}, style \in RoundTripStyles, value \in RoundTripValues,
     children \in UNION {BodyChildren(text) : text \in RoundTripTexts}}

\* nothing serialized yet
NotSerialized == [first |-> <<>>, parsed |-> <<>>, second |-> <<>>, done |-> FALSE]

InitRoundTrip ==
  /\ storage = InitialStorage(Configurations[1].perUrl, Configurations[1].auto)
  /\ nextId = 1
  /\ last = NoResponse
  /\ procs = [p \in Procs |-> Idle]
  /\ started = 0
  /\ NoPage
  /\ NoMessage
  /\ NoTimedCall
  /\ input \in RoundTripDocuments
  /\ output = NotSerialized

\* captureDOM's serialization of the document, restoreDOM of the result into
\* a fresh document, and the serialization of that document
RoundTrip ==
  /\ ~output.done
  /\ LET first == SerializeDocument(input, CaptureOptions)
         parsed == ParseDocument(first)
     IN  output' = [first |-> first, parsed |-> parsed,
                    second |-> SerializeDocument(parsed, CaptureOptions), done |-> TRUE]
  /\ UNCHANGED <<storage, nextId, last, procs, started, contentVars, input, routerVars, call>>

NextRoundTrip == RoundTrip

SpecRoundTrip == InitRoundTrip /\ [][NextRoundTrip]_vars

(***************************************************************************)
(* background/index.ts: the chrome.runtime.onMessage listener, the         *)
(* handlers it routes to and the store functions with their try/catch, one *)
(* message at a time.  chrome.storage.local may reject a get or a set.     *)
(***************************************************************************)
\* what chrome.storage.local does during one handler: nothing wrong, its
\* get rejects, or its set rejects
Faults == {"none", "get", "set"}

\* error.message of the rejection
StorageError == "storage error"

\* the value an async function resolves with, and the storage it leaves
Resolved(value, store) == [threw |-> FALSE, value |-> value, error |-> "", store |-> store]

\* the error an async function rejects with
Rejected(error, store) == [threw |-> TRUE, value |-> FALSE, error |-> error, store |-> store]

\* url-utils.ts getSnapshotsForUrl, with its catch
getSnapshotsForUrlCall(store, url, fault) ==
  IF fault = "get" THEN Resolved(<<>>, store)
  ELSE Resolved(getSnapshotsForUrl(store, url), store)

\* url-utils.ts getSnapshotById, with its catch
getSnapshotByIdCall(store, snapshotId, fault) ==
  IF fault = "get" THEN Resolved(NoSnapshot, store)
  ELSE Resolved(getSnapshotById(store, snapshotId), store)

\* url-utils.ts saveSnapshot: it logs and rethrows
saveSnapshotCall(store, url, fullSnapshot, now, fault) ==
  IF fault # "none" THEN Rejected(StorageError, store)
  ELSE Resolved(fullSnapshot.id, StorageSet(store, saveSnapshot(store, url, fullSnapshot, now)))

\* url-utils.ts deleteSnapshot, with its catch
deleteSnapshotCall(store, snapshotId, fault) ==
  LET r == deleteSnapshot(store, snapshotId)
  IN  IF fault = "get" THEN Resolved(FALSE, store)
      ELSE IF r.found /\ fault = "set" THEN Resolved(FALSE, store)
      ELSE Resolved(r.found, IF r.found THEN StorageSet(store, r.write) ELSE store)

\* url-utils.ts renameSnapshot: it logs and rethrows
renameSnapshotCall(store, snapshotId, newName, fault) ==
  LET r == renameSnapshot(store, snapshotId, newName)
  IN  IF RenameError(newName) # "" THEN Rejected(RenameError(newName), store)
      ELSE IF fault = "get" THEN Rejected(StorageError, store)
      ELSE IF r.found /\ fault = "set" THEN Rejected(StorageError, store)
      ELSE Resolved(r.found, IF r.found THEN StorageSet(store, r.write) ELSE store)

\* url-utils.ts clearSnapshotsForUrl, with its catch
clearSnapshotsForUrlCall(store, url, fault) ==
  LET r == clearSnapshotsForUrl(store, url)
  IN  IF fault = "get" THEN Resolved(0, store)
      ELSE IF r.deletedCount > 0 /\ fault = "set" THEN Resolved(0, store)
      ELSE Resolved(r.deletedCount,
                    IF r.deletedCount > 0 THEN StorageSet(store, r.write) ELSE store)

\* url-utils.ts clearAllSnapshots, with its catch
clearAllSnapshotsCall(store, now, fault) ==
  LET r == clearAllSnapshots(store, now)
  IN  IF fault = "get" THEN Resolved(0, store)
      ELSE IF r.deletedCount > 0 /\ fault = "set" THEN Resolved(0, store)
      ELSE Resolved(r.deletedCount,
                    IF r.deletedCount > 0 THEN StorageSet(store, r.write) ELSE store)

\* getStorageInfo's catch: the usage it returns
ZeroUsage == [totalSize |-> 0, snapshotCount |-> 0, maxSize |-> DefaultMaxTotalSize]

\* url-utils.ts getStorageInfo, with its catch
getStorageInfoCall(store, fault) ==
  IF fault = "get" THEN Resolved(ZeroUsage, store)
  ELSE Resolved(getStorageInfo(store), store)

\* what a handler returns: the response, the storage it leaves and the next
\* id of generateSnapshotId; sent is the domContent of the CONTENT_RESTORE_DOM
\* message the content script got from it, NoContent when it got none
HandlerReturn(response, store, id) ==
  [response |-> response, store |-> store, nextId |-> id, sent |-> NoContent]

\* the same, from a handler whose CONTENT_RESTORE_DOM reached the content script
AfterRestoreMessage(returned, domContent) ==
  [response |-> returned.response, store |-> returned.store, nextId |-> returned.nextId,
   sent |-> domContent]

\* a response with success and error; error "" stands for undefined
Outcome(type, request, success, error) ==
  [type |-> type, requestId |-> request.requestId, success |-> success, error |-> error]

\* handleCaptureSnapshot(request); env is what it meets: the active tab,
\* whether the content script answers, the page, the clock and the storage
handleCaptureSnapshot(request, store, id, env) ==
  LET type == "CAPTURE_SNAPSHOT_RESPONSE"
      captureResponse ==
        handleCaptureRequest([type |-> "CONTENT_CAPTURE_DOM",
                              options |-> [maxSize |-> RequestedMaxSize]], env.page)
      saved == saveSnapshotCall(store, env.tab.url, FullSnapshot(id, env.now, captureResponse),
                                env.now, env.fault)
  IN  IF env.tab = NoTab THEN HandlerReturn(Outcome(type, request, FALSE, "No active tab found"), store, id)
      ELSE IF ~isValidUrl(env.tab.url)
        THEN HandlerReturn(Outcome(type, request, FALSE, "Cannot capture snapshots on this page"),
                      store, id)
      ELSE IF env.channel = "error"
        THEN HandlerReturn(Outcome(type, request, FALSE, "Could not establish connection"), store, id)
      ELSE IF CaptureFailed(captureResponse)
        THEN HandlerReturn(Outcome(type, request, FALSE,
                              IF captureResponse.error # "" THEN captureResponse.error
                              ELSE "Failed to capture DOM"), store, id)
      ELSE IF saved.threw THEN HandlerReturn(Outcome(type, request, FALSE, saved.error), store, id)
      ELSE HandlerReturn([type |-> type, requestId |-> request.requestId, success |-> TRUE,
                     snapshotId |-> saved.value], saved.store, id + 1)

\* handleGetSnapshots, lines 213-219: what the response says of a snapshot
Summary(snapshot) ==
  [id |-> snapshot.id, name |-> snapshot.name, timestamp |-> snapshot.timestamp,
   size |-> snapshot.size]

\* handleGetSnapshots(request)
handleGetSnapshots(request, store, id, env) ==
  LET type == "GET_SNAPSHOTS_RESPONSE"
      url == IF request.url = NoUrl THEN env.tab.url ELSE request.url
      snapshots == getSnapshotsForUrlCall(store, url, env.fault).value
  IN  IF request.url = NoUrl /\ env.tab = NoTab
        THEN HandlerReturn([type |-> type, requestId |-> request.requestId, snapshots |-> <<>>],
                      store, id)
      ELSE HandlerReturn([type |-> type, requestId |-> request.requestId,
                     snapshots |-> [i \in 1..Len(snapshots) |-> Summary(snapshots[i])]],
                    store, id)

\* handleRestoreSnapshot(request); env.restored is the success of the
\* content script's response: the content script has then put the snapshot
\* in place of the document
handleRestoreSnapshot(request, store, id, env) ==
  LET type == "RESTORE_SNAPSHOT_RESPONSE"
      snapshot == getSnapshotByIdCall(store, request.snapshotId, env.fault).value
  IN  IF env.tab = NoTab THEN HandlerReturn(Outcome(type, request, FALSE, "No active tab found"), store, id)
      ELSE IF snapshot = NoSnapshot
        THEN HandlerReturn(Outcome(type, request, FALSE, "Snapshot not found"), store, id)
      ELSE IF env.channel = "error"
        THEN HandlerReturn(Outcome(type, request, FALSE, "Could not establish connection"), store, id)
      ELSE AfterRestoreMessage(
             HandlerReturn(Outcome(type, request, env.restored,
                                   IF env.restored THEN "" ELSE "Restoration failed"), store, id),
             snapshot.domContent)

\* handleDeleteSnapshot answering success whatever deleteSnapshot returned
handleDeleteSnapshotAlwaysOk(request, store, id, env) ==
  HandlerReturn(Outcome("DELETE_SNAPSHOT_RESPONSE", request, TRUE, ""),
                deleteSnapshotCall(store, request.snapshotId, env.fault).store, id)

\* handleDeleteSnapshot(request)
handleDeleteSnapshot(request, store, id, env) ==
  LET deleted == deleteSnapshotCall(store, request.snapshotId, env.fault)
  IN  HandlerReturn(Outcome("DELETE_SNAPSHOT_RESPONSE", request, deleted.value,
                       IF deleted.value THEN "" ELSE "Snapshot not found"),
               deleted.store, id)

\* handleRenameSnapshot(request)
handleRenameSnapshot(request, store, id, env) ==
  LET type == "RENAME_SNAPSHOT_RESPONSE"
      renamed == renameSnapshotCall(store, request.snapshotId, request.newName, env.fault)
  IN  IF renamed.threw THEN HandlerReturn(Outcome(type, request, FALSE, renamed.error), store, id)
      ELSE HandlerReturn(Outcome(type, request, renamed.value,
                            IF renamed.value THEN "" ELSE "Snapshot not found"),
                    renamed.store, id)

\* a response with deletedCount
Deleted(type, request, deletedCount) ==
  [type |-> type, requestId |-> request.requestId, deletedCount |-> deletedCount]

\* handleClearSnapshots(request)
handleClearSnapshots(request, store, id, env) ==
  LET type == "CLEAR_SNAPSHOTS_RESPONSE"
      url == IF request.url = NoUrl THEN env.tab.url ELSE request.url
      cleared == clearSnapshotsForUrlCall(store, url, env.fault)
  IN  IF request.url = NoUrl /\ env.tab = NoTab THEN HandlerReturn(Deleted(type, request, 0), store, id)
      ELSE HandlerReturn(Deleted(type, request, cleared.value), cleared.store, id)

\* handleClearAllSnapshots(request)
handleClearAllSnapshots(request, store, id, env) ==
  LET cleared == clearAllSnapshotsCall(store, env.now, env.fault)
  IN  HandlerReturn(Deleted("CLEAR_ALL_SNAPSHOTS_RESPONSE", request, cleared.value), cleared.store, id)

\* handleGetStorageInfo(request)
handleGetStorageInfo(request, store, id, env) ==
  HandlerReturn([type |-> "GET_STORAGE_INFO_RESPONSE", requestId |-> request.requestId,
            info |-> getStorageInfoCall(store, env.fault).value], store, id)

\* handleGetCurrentTab(request); NoTab stands for null
handleGetCurrentTab(request, store, id, env) ==
  HandlerReturn([type |-> "GET_CURRENT_TAB_RESPONSE", requestId |-> request.requestId,
            tab |-> env.tab], store, id)

\* the default case of the switch with a response that names no request
UnknownMessageTypeNoId(request, store, id) ==
  HandlerReturn([error |-> "Unknown message type"], store, id)

\* the listener, lines 529-534: the default case of the switch
UnknownMessageType(request, store, id) ==
  HandlerReturn([requestId |-> request.requestId, error |-> "Unknown message type"], store, id)

\* the message types the switch of the listener has a case for
RoutedTypes ==
  {"CAPTURE_SNAPSHOT", "GET_SNAPSHOTS", "RESTORE_SNAPSHOT", "DELETE_SNAPSHOT",
   "RENAME_SNAPSHOT", "CLEAR_SNAPSHOTS", "CLEAR_ALL_SNAPSHOTS", "GET_STORAGE_INFO",
   "GET_CURRENT_TAB"}

\* the listener, lines 492-535: the switch
Route(request, store, id, env) ==
  CASE request.type = "CAPTURE_SNAPSHOT" -> handleCaptureSnapshot(request, store, id, env)
    [] request.type = "GET_SNAPSHOTS" -> handleGetSnapshots(request, store, id, env)
    [] request.type = "RESTORE_SNAPSHOT" -> handleRestoreSnapshot(request, store, id, env)
    [] request.type = "DELETE_SNAPSHOT" -> handleDeleteSnapshot(request, store, id, env)
    [] request.type = "RENAME_SNAPSHOT" -> handleRenameSnapshot(request, store, id, env)
    [] request.type = "CLEAR_SNAPSHOTS" -> handleClearSnapshots(request, store, id, env)
    [] request.type = "CLEAR_ALL_SNAPSHOTS" -> handleClearAllSnapshots(request, store, id, env)
    [] request.type = "GET_STORAGE_INFO" -> handleGetStorageInfo(request, store, id, env)
    [] request.type = "GET_CURRENT_TAB" -> handleGetCurrentTab(request, store, id, env)
    [] OTHER -> UnknownMessageType(request, store, id)

\* the message types the popup sends (part_003: lines 85, 91, 97, 115, 141,
\* 166, 216, 284, 352, 386)
PopupMessageTypes ==
  {"GET_CURRENT_TAB", "GET_SNAPSHOTS", "GET_STORAGE_INFO", "CAPTURE_SNAPSHOT",
   "RESTORE_SNAPSHOT", "DELETE_SNAPSHOT", "RENAME_SNAPSHOT", "COPY_SNAPSHOT",
   "CLEAR_SNAPSHOTS", "CLEAR_ALL_SNAPSHOTS"}

\* Popup.sendMessage, line 66: the response is taken, not rejected with
\* 'Invalid response'
PopupAccepts(response, requestId) ==
  "requestId" \in DOMAIN response /\ response.requestId = requestId

\* the tab the messages of these behaviours meet, when there is one
RouterTab == [url |-> UrlString("https:", "", "h", "/a", "", "")]

\* the ids of the requests
RequestIds == {1, 2}

\* a message: the fields a type does not carry are left at NoRequest's
Request(type, requestId) == [NoRequest EXCEPT !.type = type, !.requestId = requestId]

\* the messages the listener receives: the popup's, and one of a type nobody
\* sends
RouterMessages ==
  {Request(type, r) :
     type \in {"CAPTURE_SNAPSHOT", "CLEAR_ALL_SNAPSHOTS", "GET_STORAGE_INFO",
               "GET_CURRENT_TAB", "PING"}, r \in RequestIds}
    \cup {[Request(type, r) EXCEPT !.snapshotId = id] :
            type \in {"RESTORE_SNAPSHOT", "DELETE_SNAPSHOT", "COPY_SNAPSHOT"},
            r \in RequestIds, id \in {1, 2}}
    \cup {[Request("RENAME_SNAPSHOT", r) EXCEPT !.snapshotId = id, !.newName = newName] :
            r \in RequestIds, id \in {1, 2}, newName \in {<<" ">>, <<" ", "a", " ">>}}
    \cup {[Request(type, r) EXCEPT !.url = url] :
            type \in {"GET_SNAPSHOTS", "CLEAR_SNAPSHOTS"}, r \in RequestIds,
            url \in {NoUrl, RouterTab.url}}

\* what a handler meets
RouterEnvs ==
  [tab : {NoTab, RouterTab}, channel : {"ok", "error"}, fault : Faults,
   page : {p \in Pages : p.size = 3 /\ ~p.throws}, now : {1}, restored : BOOLEAN]

InitRouter ==
  /\ storage = InitialStorage(Configurations[1].perUrl, Configurations[1].auto)
  /\ nextId = 1
  /\ last = NoResponse
  /\ procs = [p \in Procs |-> Idle]
  /\ started = 0
  /\ NoPage
  /\ NoCall
  /\ NoMessage
  /\ NoTimedCall

\* the listener is called with a message and returns true; the message
\* before it has been answered
Receive(request) ==
  /\ message = NoRequest \/ responses # <<>>
  /\ message' = request
  /\ responses' = <<>>
  /\ UNCHANGED <<storage, nextId, last, procs, started, contentVars, callVars, call>>

\* the async function of the listener runs to its end: the switch, the
\* handler and sendResponse (line 537)
Dispatch(env) ==
  LET returned == Route(message, storage, nextId, env)
  IN  /\ message # NoRequest
      /\ responses = <<>>
      /\ returned.nextId <= MaxSaves + 1
      /\ storage' = returned.store
      /\ nextId' = returned.nextId
      /\ responses' = Append(responses, returned.response)
      /\ restore' = IF returned.sent = NoContent THEN restore
                    ELSE [NoRestore EXCEPT !.pc = "done", !.domContent = returned.sent,
                                           !.before = document,
                                           !.success = returned.response.success,
                                           !.error = returned.response.error,
                                           !.requests = 1]
      /\ document' = IF returned.sent # NoContent /\ returned.response.success
                       THEN returned.sent.text ELSE document
      /\ UNCHANGED <<last, procs, started, callVars, message, call>>

NextRouter ==
  \/ \E request \in RouterMessages : Receive(request)
  \/ \E env \in RouterEnvs : Dispatch(env)

SpecRouter == InitRouter /\ [][NextRouter]_vars

(***************************************************************************)
(* background/index.ts: sendMessageToContentScript with its retries and    *)
(* injectContentScript.  An error is its message, a sequence of characters.*)
(***************************************************************************)
\* Could not establish connection
ConnectionPhrase ==
  <<"C", "o", "u", "l", "d", " ", "n", "o", "t", " ", "e", "s", "t", "a", "b", "l", "i",
    "s", "h", " ", "c", "o", "n", "n", "e", "c", "t", "i", "o", "n">>
\* Could not establish connection. Receiving end does not exist.
NoReceiver ==
  <<"C", "o", "u", "l", "d", " ", "n", "o", "t", " ", "e", "s", "t", "a", "b", "l", "i",
    "s", "h", " ", "c", "o", "n", "n", "e", "c", "t", "i", "o", "n", ".", " ", "R", "e",
    "c", "e", "i", "v", "i", "n", "g", " ", "e", "n", "d", " ", "d", "o", "e", "s", " ",
    "n", "o", "t", " ", "e", "x", "i", "s", "t", ".">>
\* The message port closed before a response was received.
PortClosed ==
  <<"T", "h", "e", " ", "m", "e", "s", "s", "a", "g", "e", " ", "p", "o", "r", "t", " ",
    "c", "l", "o", "s", "e", "d", " ", "b", "e", "f", "o", "r", "e", " ", "a", " ", "r",
    "e", "s", "p", "o", "n", "s", "e", " ", "w", "a", "s", " ", "r", "e", "c", "e", "i",
    "v", "e", "d", ".">>
\* Extension context invalidated.
ContextInvalidated ==
  <<"E", "x", "t", "e", "n", "s", "i", "o", "n", " ", "c", "o", "n", "t", "e", "x", "t", " ",
    "i", "n", "v", "a", "l", "i", "d", "a", "t", "e", "d", ".">>
\* No response from content script
NoResponseError ==
  <<"N", "o", " ", "r", "e", "s", "p", "o", "n", "s", "e", " ", "f", "r", "o", "m", " ",
    "c", "o", "n", "t", "e", "n", "t", " ", "s", "c", "r", "i", "p", "t">>

\* maxRetries
MaxRetries == 2

\* what chrome.tabs.sendMessage calls its callback with: a response, no
\* response, or chrome.runtime.lastError with one of these messages
LastErrors == {NoReceiver, PortClosed, ContextInvalidated}
SendOutcomes == {<<"response">>, <<"nothing">>} \cup {<<"lastError", m>> : m \in LastErrors}

\* line 95 with <= for <
ShouldRetryOnceMore(retryCount, error) ==
  retryCount <= MaxRetries /\ Includes(error, ConnectionPhrase)

\* line 95: retryCount < maxRetries && error instanceof Error &&
\* error.message.includes('Could not establish connection')
ShouldRetry(retryCount, error) ==
  retryCount < MaxRetries /\ Includes(error, ConnectionPhrase)

\* a call of sendMessageToContentScript(tabId, message): pc is "sending"
\* (chrome.tabs.sendMessage has been called and its callback is to come),
\* "injecting" (injectContentScript is awaited), "waiting" (the 100 ms
\* timer), "resolved" or "rejected"; attempts and injections count the calls
\* of chrome.tabs.sendMessage and of injectContentScript, events lists what
\* came back, error is the error thrown last
SendCall(tabId, type) ==
  [pc |-> "sending", tabId |-> tabId, type |-> type, retryCount |-> 0, attempts |-> 1,
   injections |-> 0, events |-> <<>>, error |-> <<>>]

InitSend ==
  /\ storage = InitialStorage(Configurations[1].perUrl, Configurations[1].auto)
  /\ nextId = 1
  /\ last = NoResponse
  /\ procs = [p \in Procs |-> Idle]
  /\ started = 0
  /\ NoPage
  /\ NoMessage
  /\ NoTimedCall
  /\ input = NoContent
  /\ output \in {SendCall(tabId, type) :
                   tabId \in {1, 2, 3}, type \in {"CONTENT_CAPTURE_DOM", "CONTENT_RESTORE_DOM"}}

SendUnchanged == UNCHANGED <<storage, nextId, last, procs, started, contentVars, input,
                             routerVars, call>>

\* lines 80-92 and the catch block up to its first await or its throw: the
\* callback of chrome.tabs.sendMessage runs
SendCallback(outcome) ==
  LET error == IF outcome[1] = "lastError" THEN outcome[2] ELSE NoResponseError
      seen == [output EXCEPT !.events = Append(@, outcome[1])]
  IN  /\ output.pc = "sending"
      /\ output' = IF outcome[1] = "response" THEN [seen EXCEPT !.pc = "resolved"]
                   ELSE IF ShouldRetry(output.retryCount, error)
                     THEN [seen EXCEPT !.pc = "injecting", !.error = error,
                                       !.injections = @ + 1]
                   ELSE [seen EXCEPT !.pc = "rejected", !.error = error]
      /\ SendUnchanged

\* lines 99-107: injectContentScript has returned
InjectReturns(injected) ==
  /\ output.pc = "injecting"
  /\ output' = [output EXCEPT !.pc = IF injected THEN "waiting" ELSE "rejected",
                              !.events = Append(@, IF injected THEN "injected"
                                                               ELSE "not injected")]
  /\ SendUnchanged

\* lines 102-103: the 100 ms timer fires and the function calls itself with
\* retryCount + 1
RetrySend ==
  /\ output.pc = "waiting"
  /\ output' = [output EXCEPT !.pc = "sending", !.retryCount = @ + 1, !.attempts = @ + 1]
  /\ SendUnchanged

NextSend ==
  \/ \E outcome \in SendOutcomes : SendCallback(outcome)
  \/ \E injected \in BOOLEAN : InjectReturns(injected)
  \/ RetrySend

\* chrome calls every callback it was given, and the timer fires
SpecSend == InitSend /\ [][NextSend]_vars /\ WF_vars(NextSend)

(***************************************************************************)
(* dom-serializer.ts: what captureDOM makes of a page, given to            *)
(* validateDOMContent as handleRestoreRequest gives it the stored content. *)
(***************************************************************************)
\* SCRIPT
ScriptTagUpper == <<"S", "C", "R", "I", "P", "T">>
\* A
ATagName == <<"A">>
\* href
HrefName == <<"h", "r", "e", "f">>
\* javascript:x
JavascriptUrl == <<"j", "a", "v", "a", "s", "c", "r", "i", "p", "t", ":", "x">>
\* data:text/html,x
DataHtmlUrl ==
  <<"d", "a", "t", "a", ":", "t", "e", "x", "t", "/", "h", "t", "m", "l", ",", "x">>
\* <script>x</script>
ScriptText ==
  <<"<", "s", "c", "r", "i", "p", "t", ">", "x", "<", "/", "s", "c", "r", "i", "p", "t", ">">>

\* what the pages hold as the value of a link's href, as text and as the
\* data of a comment
CapturedStrings == {PlainValue, JavascriptUrl, DataHtmlUrl, ScriptText}
CapturedComments == {CommentText, ScriptText}

\* the pages captured: a link with an href and a text, a comment, and with
\* or without a script element of the page's own
CapturedDocuments ==
  {[doctype |-> HtmlName,
    documentElement |->
      ElementNode(HtmlTagName, <<>>,
        <<ElementNode(HeadTagName, <<>>,
                      IF script THEN <<ElementNode(ScriptTagUpper, <<>>, <<TextNode(PlainText)>>)>>
                      ELSE <<>>),
          ElementNode(BodyTagName, <<>>,
            <<ElementNode(ATagName, <<Attr(HrefName, value)>>, <<TextNode(text)>>),
              CommentNode(comment)>>)>>)] :
     script \in BOOLEAN, value \in CapturedStrings, text \in CapturedStrings,
     comment \in CapturedComments}

\* the byte sizes of their serializations: small, and the most the content
\* script's captureDOM accepts
CapturedSizes == {1, ContentMaxSize}

\* captureDOM of the content script on a document: the content stored
CapturedContent(doc, size) ==
  captureDOM([size |-> size, text |-> SerializeDocument(doc, CaptureOptions), throws |-> FALSE],
             [maxSize |-> ContentMaxSize]).domContent

InitCaptured ==
  /\ storage = InitialStorage(Configurations[1].perUrl, Configurations[1].auto)
  /\ nextId = 1
  /\ last = NoResponse
  /\ procs = [p \in Procs |-> Idle]
  /\ started = 0
  /\ NoPage
  /\ NoMessage
  /\ NoTimedCall
  /\ input \in [document : CapturedDocuments, size : CapturedSizes]
  /\ output = NotCalled

\* the page is captured and, when its snapshot is restored, handleRestoreRequest
\* calls validateDOMContent on the captured content
ValidateCaptured ==
  /\ output = NotCalled
  /\ output' = validateDOMContent(CapturedContent(input.document, input.size))
  /\ UNCHANGED <<storage, nextId, last, procs, started, contentVars, input, routerVars, call>>

NextCaptured == ValidateCaptured

SpecCaptured == InitCaptured /\ [][NextCaptured]_vars

(***************************************************************************)
(* dom-serializer.ts: morphElement on a live tree whose nodes are told     *)
(* apart.  A node of the live tree carries in node the place it had in the *)
(* tree before the morph; the nodes of the target, and so the clones made  *)
(* of them, carry none.                                                    *)
(***************************************************************************)
RECURSIVE LiveTree(_, _)
\* the tree n as a tree of the live document, n being at path
LiveTree(n, path) ==
  [kind |-> n.kind, tag |-> n.tag, attrs |-> n.attrs, data |-> n.data,
   children |-> [i \in 1..Len(n.children) |-> LiveTree(n.children[i], Append(path, i))],
   node |-> path]

InitKeep ==
  /\ storage = InitialStorage(Configurations[1].perUrl, Configurations[1].auto)
  /\ nextId = 1
  /\ last = NoResponse
  /\ procs = [p \in Procs |-> Idle]
  /\ started = 0
  /\ NoPage
  /\ NoMessage
  /\ NoTimedCall
  /\ \E live \in MorphRoots, target \in MorphRoots :
       input = [live |-> LiveTree(live, <<>>), target |-> target, before |-> TextNode("")]
  /\ output = NotMorphed

SpecKeep == InitKeep /\ [][NextMorph]_vars

(***************************************************************************)
(* dom-serializer.ts: updateDocumentHead on the children of document.head  *)
(* and of the head of the parsed snapshot.  A node carries its identity in *)
(* node: the document it was in and its place there, or, for a node that   *)
(* cloneNode made, the node it is a copy of.  src is the src property of   *)
(* an element: empty when the element has no src attribute.                *)
(***************************************************************************)
HeadElement(node, tag, src, children) ==
  [node |-> node, kind |-> "element", tag |-> tag, src |-> src, data |-> "",
   children |-> children]

HeadText(node, data) ==
  [node |-> node, kind |-> "text", tag |-> "", src |-> "", data |-> data, children |-> <<>>]

RECURSIVE Concat(_)
\* the sequences of a sequence of sequences, one after the other
Concat(seqs) == IF seqs = <<>> THEN <<>> ELSE Head(seqs) \o Concat(Tail(seqs))

RECURSIVE querySelectorAllScriptSrc(_)
\* querySelectorAll('script[src]') below a node with these children: the
\* script elements with a src attribute among the descendants, in document
\* order
querySelectorAllScriptSrc(children) ==
  Concat([i \in 1..Len(children) |->
             (IF children[i].kind = "element" /\ children[i].tag = "SCRIPT"
                   /\ children[i].src # ""
                THEN <<children[i]>> ELSE <<>>)
             \o querySelectorAllScriptSrc(children[i].children)])

RECURSIVE CloneHeadNode(_)
\* child.cloneNode(true): a new node, and new nodes below it
CloneHeadNode(child) ==
  [child EXCEPT !.node = <<"clone", child.node>>,
                !.children = [i \in 1..Len(child.children) |->
                                CloneHeadNode(child.children[i])]]

\* find that finds no script
FindExistingScriptNever(existingScripts, child) == FALSE

\* existingScripts.find(script => script.src === child.src) finds a script
FindExistingScript(existingScripts, child) ==
  \E i \in 1..Len(existingScripts) : existingScripts[i].src = child.src

RECURSIVE AppendNewHeadChildren(_, _, _, _)
\* updateDocumentHead, lines 334-346: the loop over newHead.children, the
\* element children of newHead, from the child node at position i on
AppendNewHeadChildren(i, currentHead, newHead, existingScripts) ==
  IF i > Len(newHead) THEN currentHead
  ELSE
    LET child == newHead[i]
        appended ==
          IF child.kind # "element" THEN currentHead
          ELSE IF child.tag = "SCRIPT"
            THEN IF ~FindExistingScript(existingScripts, child)
                   THEN Append(currentHead, CloneHeadNode(child))
                   ELSE currentHead
          ELSE Append(currentHead, CloneHeadNode(child))
    IN  AppendNewHeadChildren(i + 1, appended, newHead, existingScripts)

\* updateDocumentHead(newHead): the child nodes of document.head after it,
\* currentHead being its child nodes before
updateDocumentHead(currentHead, newHead) ==
  LET existingScripts == querySelectorAllScriptSrc(currentHead)
      cleared == <<>>
  IN  AppendNewHeadChildren(1, cleared, newHead, existingScripts) \o existingScripts

\* what a head holds: scripts from two addresses, an inline script, a style
\* sheet, text, and an element with a script below it
HeadShapes == {"a.js", "b.js", "inline", "style", "text", "nested"}

\* the node of that shape with the identity node
HeadNode(shape, node) ==
  CASE shape = "a.js" -> HeadElement(node, "SCRIPT", "a.js", <<>>)
    [] shape = "b.js" -> HeadElement(node, "SCRIPT", "b.js", <<>>)
    [] shape = "inline" -> HeadElement(node, "SCRIPT", "", <<HeadText(Append(node, 1), "x")>>)
    [] shape = "style" -> HeadElement(node, "STYLE", "", <<HeadText(Append(node, 1), "y")>>)
    [] shape = "text" -> HeadText(node, "z")
    [] shape = "nested" ->
         HeadElement(node, "DIV", "", <<HeadElement(Append(node, 1), "SCRIPT", "a.js", <<>>)>>)

\* a head holds none, one or two of these
HeadShapeLists ==
  {<<>>} \cup {<<a>> : a \in HeadShapes} \cup {<<a, b>> : a, b \in HeadShapes}

\* the child nodes of the head of the document named owner
HeadOf(owner, shapes) == [i \in 1..Len(shapes) |-> HeadNode(shapes[i], <<owner, i>>)]

\* updateDocumentHead has not been called yet
HeadNotUpdated == [head |-> <<>>, calls |-> 0]

InitHead ==
  /\ storage = InitialStorage(Configurations[1].perUrl, Configurations[1].auto)
  /\ nextId = 1
  /\ last = NoResponse
  /\ procs = [p \in Procs |-> Idle]
  /\ started = 0
  /\ NoPage
  /\ NoMessage
  /\ NoTimedCall
  /\ \E live \in HeadShapeLists, snapshot \in HeadShapeLists :
       input = [currentHead |-> HeadOf("live", live), newHead |-> HeadOf("snapshot", snapshot)]
  /\ output = HeadNotUpdated

\* updateDocumentHead(snapshotDoc.head)
UpdateHead ==
  /\ output.calls = 0
  /\ output' = [head |-> updateDocumentHead(input.currentHead, input.newHead), calls |-> 1]
  /\ UNCHANGED <<storage, nextId, last, procs, started, contentVars, routerVars, input, call>>

NextHead == UpdateHead

SpecHead == InitHead /\ [][NextHead]_vars

(***************************************************************************)
(* dom-serializer.ts: the delayed callbacks of restorePreservedState, on   *)
(* the content script's event loop.  input is the page: where the window   *)
(* is scrolled to, how far its document scrolls (extent), the ids of the   *)
(* elements in the document, the id of the focused element ('' when it has *)
(* none), the time in ms and the number of hot restorations begun.  output *)
(* holds the timers set and not yet run, in the order they were set, the   *)
(* callbacks run, and what each restoration captured and found.            *)
(***************************************************************************)
Position(x, y) == [x |-> x, y |-> y]

Min(a, b) == IF a <= b THEN a ELSE b

\* window.scrollTo(x, y): the position the window is at afterwards, which
\* is no further than the document scrolls
scrollTo(position, extent) == Position(Min(position.x, extent.x), Min(position.y, extent.y))

\* preserveCurrentState, lines 224-233: scroll and focus
PreserveScrollAndFocus(page) == [scroll |-> page.scroll, focus |-> [id |-> page.active]]

\* setTimeout that forgets the timers set before
setTimeoutAlone(timers, timer) == <<timer>>

\* setTimeout(callback, delay): one more timer
setTimeout(timers, timer) == Append(timers, timer)

\* a timer: the time it is due, its callback (restoreScroll or the focus
\* callback), the state and the element the callback closes over, and the
\* restoration that set it
Timer(now, delay, callback, state, element, restoration) ==
  [due |-> now + delay, delay |-> delay, callback |-> callback, state |-> state,
   element |-> element, restoration |-> restoration]

\* the delays of the three setTimeout(restoreScroll, ...) calls
ScrollDelays == <<10, 50, 100>>

\* the delay of the focus callback
FocusDelay == 150

\* restorePreservedState, lines 524-541: the timers after it
ScheduleReplay(timers, state, page, restoration) ==
  LET first == setTimeout(timers, Timer(page.clock, ScrollDelays[1], "restoreScroll", state, "",
                                        restoration))
      second == setTimeout(first, Timer(page.clock, ScrollDelays[2], "restoreScroll", state, "",
                                        restoration))
      third == setTimeout(second, Timer(page.clock, ScrollDelays[3], "restoreScroll", state, "",
                                        restoration))
  IN  IF state.focus.id # "" /\ state.focus.id \in page.ids
        THEN setTimeout(third, Timer(page.clock, FocusDelay, "focus", state, state.focus.id,
                                     restoration))
        ELSE third

\* restoreScroll that always writes
restoreScrollAlways(page, state) ==
  [page |-> [page EXCEPT !.scroll = scrollTo(state.scroll, page.extent)], wrote |-> TRUE]

\* restoreScroll, lines 516-521: the page after it, and whether it called
\* scrollTo
restoreScroll(page, state) ==
  IF page.scroll.x # state.scroll.x \/ page.scroll.y # state.scroll.y
    THEN [page |-> [page EXCEPT !.scroll = scrollTo(state.scroll, page.extent)], wrote |-> TRUE]
    ELSE [page |-> page, wrote |-> FALSE]

\* the focus callback, lines 532-539: element.focus(), which does nothing
\* for an element that is no longer in the document
RestoreFocus(page, element) ==
  [page |-> IF element \in page.ids THEN [page EXCEPT !.active = element] ELSE page,
   wrote |-> element \in page.ids]

\* the documents: one that does not scroll and has no element with an id,
\* and one that scrolls and has the element e
ShortDocument == [extent |-> Position(0, 0), ids |-> {}]
LongDocument == [extent |-> Position(0, 1000), ids |-> {"e"}]
ReplayDocuments == {ShortDocument, LongDocument}

\* the most hot restorations in a behaviour
MaxHotRestores == 2

\* the time that passes in one step without a callback
Wait == 20

\* nothing set, run or captured yet
NoTimers == [timers |-> <<>>, fired |-> <<>>, captured |-> <<>>]

InitScroll ==
  /\ storage = InitialStorage(Configurations[1].perUrl, Configurations[1].auto)
  /\ nextId = 1
  /\ last = NoResponse
  /\ procs = [p \in Procs |-> Idle]
  /\ started = 0
  /\ NoPage
  /\ NoMessage
  /\ NoTimedCall
  /\ \E y \in {0, 500}, active \in {"", "e"} :
       input = [scroll |-> Position(0, y), extent |-> LongDocument.extent,
                ids |-> LongDocument.ids, active |-> active, clock |-> 0, restorations |-> 0]
  /\ output = NoTimers

\* restoreDOMHotReload with preserveState, lines 197-206: the state is
\* captured, the head and the body become the snapshot's, which takes the
\* focus from an element that is gone and leaves the window where it was, as
\* far as the new document scrolls, or (reset) at the top, and
\* restorePreservedState sets its timers
HotRestore(snapshot, reset) ==
  /\ input.restorations < MaxHotRestores
  /\ LET preservedState == PreserveScrollAndFocus(input)
         restoration == input.restorations + 1
         page == [input EXCEPT
                    !.extent = snapshot.extent,
                    !.ids = snapshot.ids,
                    !.scroll = IF reset THEN Position(0, 0)
                               ELSE scrollTo(input.scroll, snapshot.extent),
                    !.active = IF input.active \in snapshot.ids THEN input.active ELSE "",
                    !.restorations = restoration]
     IN  /\ input' = page
         /\ output' = [output EXCEPT
              !.timers = ScheduleReplay(output.timers, preservedState, page, restoration),
              !.captured = Append(output.captured,
                                  [state |-> preservedState, ids |-> page.ids,
                                   at |-> page.clock])]
  /\ UNCHANGED <<storage, nextId, last, procs, started, contentVars, routerVars, call>>

\* the timer the event loop runs next: the one due first, and of those due
\* at the same time the one set first
NextTimer(timers) ==
  CHOOSE k \in 1..Len(timers) :
    \A j \in 1..Len(timers) :
      timers[k].due < timers[j].due \/ (timers[k].due = timers[j].due /\ k <= j)

\* the event loop runs the callback of the next timer when it is due
Fire ==
  /\ output.timers # <<>>
  /\ LET k == NextTimer(output.timers)
         timer == output.timers[k]
         now == [input EXCEPT !.clock = Max(input.clock, timer.due)]
         ran == IF timer.callback = "restoreScroll" THEN restoreScroll(now, timer.state)
                ELSE RestoreFocus(now, timer.element)
     IN  /\ input' = ran.page
         /\ output' = [output EXCEPT
              !.timers = Splice(output.timers, k),
              !.fired = Append(output.fired,
                               [restoration |-> timer.restoration, callback |-> timer.callback,
                                delay |-> timer.delay, at |-> now.clock,
                                target |-> timer.state.scroll, element |-> timer.element,
                                wrote |-> ran.wrote, before |-> input.scroll,
                                after |-> ran.page.scroll, extent |-> input.extent,
                                restorations |-> input.restorations])]
  /\ UNCHANGED <<storage, nextId, last, procs, started, contentVars, routerVars, call>>

\* time passes while timers are set, not beyond the time the next is due
TimePasses ==
  /\ output.timers # <<>>
  /\ input.restorations < MaxHotRestores
  /\ input.clock + Wait <= output.timers[NextTimer(output.timers)].due
  /\ input' = [input EXCEPT !.clock = @ + Wait]
  /\ UNCHANGED <<storage, nextId, last, procs, started, contentVars, routerVars, output, call>>

NextScroll ==
  \/ \E snapshot \in ReplayDocuments, reset \in BOOLEAN : HotRestore(snapshot, reset)
  \/ Fire
  \/ TimePasses

\* the event loop runs every timer that is due
SpecScroll == InitScroll /\ [][NextScroll]_vars /\ WF_vars(Fire)

(***************************************************************************)
(* dom-serializer.ts: validateDOMContent called on its own, on contents    *)
(* with and without a root tag, in either letter case, with and without    *)
(* the patterns it looks for, empty, and up to and over its size limit.    *)
(***************************************************************************)
ValidatorTexts ==
  {PlainHtml, LinkHtml, UpperHtml, MixedHtml, NoRoot, LateRoot, HtmlPrefix, BrokenRoot,
   ScriptHtml, UpperScript, ScriptSrc, OpenScript, ClosedFirst, ScriptLike, UpperLink,
   DataHtml, DataPlain, UpperScriptNoRoot}

\* the Blob sizes the texts come with: 1 MiB or less, the limit, and over it
ValidatorSizes == {1, ValidatorMaxSize, ValidatorMaxSize + 1}

\* a string and its Blob size; only the empty string has size 0
ValidatorInputs ==
  {DomContent(text, size) : text \in ValidatorTexts, size \in ValidatorSizes}
    \cup {NoContent}

InitValidate ==
  /\ storage = InitialStorage(Configurations[1].perUrl, Configurations[1].auto)
  /\ nextId = 1
  /\ last = NoResponse
  /\ procs = [p \in Procs |-> Idle]
  /\ started = 0
  /\ NoPage
  /\ input \in ValidatorInputs
  /\ output = NotCalled
  /\ NoMessage
  /\ NoTimedCall

\* the call validateDOMContent(input) returns
Validate ==
  /\ output = NotCalled
  /\ output' = validateDOMContent(input)
  /\ UNCHANGED <<storage, nextId, last, procs, started, contentVars, input, routerVars, call>>

NextValidate == Validate

SpecValidate == InitValidate /\ [][NextValidate]_vars

(***************************************************************************)
(* Properties                                                              *)
(***************************************************************************)
\* every snapshot in the store, as a set
StoredSnapshots(store) ==
  {store.snapshots[i].list[j] : <<i, j>> \in
     {<<i, j>> \in (1..Len(store.snapshots)) \X (1..(MaxSaves + MaxConcSaves + 2)) :
        j <= Len(store.snapshots[i].list)}}

RECURSIVE SizeOfAll(_)
\* the sum of the sizes of a set of snapshots (ids are unique)
SizeOfAll(set) ==
  IF set = {} THEN 0
  ELSE LET x == CHOOSE x \in set : TRUE IN x.size + SizeOfAll(set \ {x})

MetadataMatches(store) ==
  /\ store.metadata.totalSize = SizeOfAll(StoredSnapshots(store))
  /\ store.metadata.snapshotCount = Cardinality(StoredSnapshots(store))

IsCapture == last.type = "CAPTURE_SNAPSHOT_RESPONSE"

\* C1: when the store operations run one after the other (saves with per-URL
\* and global eviction, deletes, renames, clearGroup, clearAll), the persisted
\* metadata always has totalSize = the sum of the stored snapshots' sizes and
\* snapshotCount = the number of stored snapshots.
C1_MetadataConsistent == MetadataMatches(storage)

\* C1 witness: a save that dropped its group's first member and ran the
\* global cleanup has completed, and snapshots are left
C1_Witness ==
  /\ IsCapture /\ last.success /\ last.evicted /\ last.cleaned
  /\ storage.metadata.snapshotCount > 0

\* C2: two saves for the same normalized URL whose get and set steps
\* interleaved have both returned, neither hit an eviction limit, and both
\* new snapshots are in the group.
C2_OverlappingSavesBothKept ==
  \A p \in Procs, q \in Procs :
    ( /\ p # q
      /\ procs[p].pc = "done" /\ procs[p].type = "save" /\ procs[p].overlap
      /\ procs[q].pc = "done" /\ procs[q].type = "save" /\ procs[q].overlap
      /\ procs[p].key = procs[q].key
      /\ ~procs[p].evicted /\ ~procs[q].evicted )
    => /\ FindIndex(GroupOf(storage.snapshots, procs[p].key), procs[p].id) # 0
       /\ FindIndex(GroupOf(storage.snapshots, procs[p].key), procs[q].id) # 0

\* C3: under any interleaving of the store operations' atomic get and set
\* steps, the persisted metadata has totalSize = the sum of the stored
\* snapshots' sizes and snapshotCount = the number of stored snapshots.
C3_MetadataConsistentInterleaved ==
  /\ storage.metadata.totalSize = SizeOfAll(StoredSnapshots(storage))
  /\ storage.metadata.snapshotCount = Cardinality(StoredSnapshots(storage))

PerUrlLimit == storage.settings.maxSnapshotsPerUrl

\* a step of Spec in which saveSnapshot ran
SaveStep == nextId' = nextId + 1

\* what C4 says of a save into a full group: the group's first member is
\* gone, the others follow in their order, the new snapshot is last, the
\* other groups are as they were and the metadata counts the survivors
FullGroupSaveEffect ==
  LET key == last'.key
      old == GroupOf(storage.snapshots, key)
      new == GroupOf(storage'.snapshots, key)
  IN  /\ Len(new) = PerUrlLimit
      /\ new = Append(Tail(old), last'.snapshot)
      /\ \A i \in 1..Len(storage.snapshots) :
           storage.snapshots[i].url # key =>
             GroupOf(storage'.snapshots, storage.snapshots[i].url) = storage.snapshots[i].list
      /\ \A i \in 1..Len(storage'.snapshots) :
           storage'.snapshots[i].url # key => HasKey(storage.snapshots, storage'.snapshots[i].url)
      /\ MetadataMatches(storage')

IntoFullGroup ==
  /\ SaveStep
  /\ PerUrlLimit >= 1
  /\ Len(GroupOf(storage.snapshots, last'.key)) = PerUrlLimit

\* C4 as stated: with maxSnapshotsPerUrl = N >= 1, every save into a group
\* that holds N snapshots removes exactly the group's first-inserted member,
\* leaves N members with the new snapshot last and the others in order,
\* leaves every other group unchanged and the metadata counting the survivors.
C4_FullGroupSaveAlways == [][IntoFullGroup => FullGroupSaveEffect]_vars

\* C4 amended: the same, for the saves that do not start the global cleanup
\* (totalSize after the insert is at most maxTotalSize).
C4_FullGroupSaveNoCleanup == [][(IntoFullGroup /\ ~last'.cleaned) => FullGroupSaveEffect]_vars

\* C4 witness: a save into a full group of a store with two groups has
\* completed without global cleanup
C4_Witness ==
  /\ IsCapture /\ last.success /\ last.evicted /\ ~last.cleaned
  /\ PerUrlLimit >= 1
  /\ Len(storage.snapshots) = 2

\* C5 as stated: every group's size is at most maxSnapshotsPerUrl, whatever
\* value the setting has.
C5_GroupWithinLimitAnySetting ==
  \A i \in 1..Len(storage.snapshots) : Len(storage.snapshots[i].list) <= PerUrlLimit

\* C5 amended: every group's size is at most maxSnapshotsPerUrl when that
\* setting is at least 1.
C5_GroupWithinLimit ==
  PerUrlLimit >= 1 =>
    \A i \in 1..Len(storage.snapshots) : Len(storage.snapshots[i].list) <= PerUrlLimit

\* C5 witness: a save into a group at the limit has completed and the group
\* is at the limit again
C5_Witness ==
  /\ IsCapture /\ last.success /\ last.evicted
  /\ PerUrlLimit >= 1
  /\ Len(GroupOf(storage.snapshots, last.key)) = PerUrlLimit

\* C6: once a save that made totalSize exceed maxTotalSize has completed, the
\* persisted totalSize is at most 80% of maxTotalSize.
C6_CleanupReachesTarget ==
  (IsCapture /\ last.success /\ last.cleaned) =>
    /\ 5 * storage.metadata.totalSize <= 4 * storage.settings.maxTotalSize
    /\ 5 * SizeOfAll(StoredSnapshots(storage)) <= 4 * storage.settings.maxTotalSize

\* C6 witness: such a save has completed and left snapshots in the store
C6_Witness ==
  /\ IsCapture /\ last.success /\ last.cleaned
  /\ storage.metadata.totalSize > 0

\* the snapshots the global cleanup of this save step starts from: the
\* stored ones, less the member the per-URL limit dropped, plus the new one
BeforeCleanup ==
  LET old == GroupOf(storage.snapshots, last'.key)
  IN  (StoredSnapshots(storage) \ (IF last'.evicted THEN {old[1]} ELSE {}))
        \cup {last'.snapshot}

RemovedByCleanup == BeforeCleanup \ StoredSnapshots(storage')

\* C7: the snapshots the global cleanup removes are a prefix of all snapshots
\* in ascending timestamp order (no removed snapshot is newer than a
\* surviving one, across groups), nothing else changes, and it stops as soon
\* as totalSize is at most 80% of maxTotalSize: with the last removed
\* snapshot put back the total would be above that target.
C7_CleanupOldestFirstMinimal ==
  [][(SaveStep /\ last'.cleaned) =>
       /\ StoredSnapshots(storage') \subseteq BeforeCleanup
       /\ \A r \in RemovedByCleanup, k \in StoredSnapshots(storage') :
            r.timestamp <= k.timestamp
       /\ RemovedByCleanup # {}
       /\ \E r \in RemovedByCleanup :
            /\ \A o \in RemovedByCleanup : o.timestamp <= r.timestamp
            /\ 5 * (storage'.metadata.totalSize + r.size) > 4 * storage.settings.maxTotalSize
     ]_vars

\* C7 witness: a global cleanup has completed that removed some snapshots and
\* kept others, in a store with more than one group
C7_Witness ==
  /\ IsCapture /\ last.success /\ last.cleaned /\ ~last.evicted
  /\ Len(storage.snapshots) = 2
  /\ storage.metadata.snapshotCount >= 2

\* C8: after a save has returned an id, the snapshot with that id is in the
\* store: getById finds it and it is the last element of getByUrl.
C8_SavedSnapshotIsStored ==
  (IsCapture /\ last.success) =>
    /\ getSnapshotById(storage, last.snapshotId) # NoSnapshot
    /\ LET list == GroupOf(storage.snapshots, last.key)
       IN  list # <<>> /\ list[Len(list)].id = last.snapshotId

\* C9: every snapshot stored through the capture flow has a size of at most
\* the 5 MiB the background asks for.
C9_StoredWithinRequestedMaxSize ==
  \A x \in StoredSnapshots(storage) : x.size <= RequestedMaxSize

CaptureErrors == {"DOM size exceeds limit", "serialization error"}

\* C10: when captureDOM has failed, for the size limit in force or another
\* serialization error, the capture request ends with success = false and an
\* error message, saveSnapshot is not called, and the step leaves the
\* persisted snapshots, metadata and settings as they were.
C10_FailedCaptureStoresNothing ==
  [][(last'.type = "CAPTURE_SNAPSHOT_RESPONSE" /\ last'.contentError \in CaptureErrors) =>
       /\ ~last'.success
       /\ last'.error # ""
       /\ ~last'.saveCalled
       /\ storage' = storage
       /\ nextId' = nextId
    ]_vars

\* C10 witness: a capture of a page above the limit in force has been
\* answered while snapshots are stored
C10_Witness ==
  /\ IsCapture /\ last.contentError = "DOM size exceeds limit"
  /\ storage.metadata.snapshotCount > 0

\* a name that is non-empty and at most 100 characters long once trimmed
ValidAfterTrim(newName) == Len(Trim(newName)) > 0 /\ Len(Trim(newName)) <= MaxNameLength

InvalidNameErrors == {"Snapshot name cannot be empty", "Snapshot name cannot exceed 100 characters"}

\* C13: a rename of a stored snapshot succeeds and stores the trimmed name for
\* exactly the names that are non-empty and at most 100 characters after
\* trimming; for every other name it fails with an invalid-name error and the
\* persisted store is unchanged.
C13_RenameAcceptsValidTrimmedNames ==
  [][\A id \in Ids, newName \in RenameInputs :
       HandleRenameSnapshot(id, newName) =>
         IF ValidAfterTrim(newName)
           THEN EntryWithId(storage.snapshots, id) # 0 =>
                  /\ last'.success
                  /\ getSnapshotById(storage', id).name = Trim(newName)
           ELSE /\ ~last'.success
                /\ last'.error \in InvalidNameErrors
                /\ storage' = storage
    ]_vars

\* the snapshots object with every name blanked
WithoutNames(snaps) ==
  [i \in 1..Len(snaps) |->
     [url |-> snaps[i].url,
      list |-> [j \in 1..Len(snaps[i].list) |-> [snaps[i].list[j] EXCEPT !.name = <<>>]]]]

\* this step is a successful rename request for id
RenameStep(id) ==
  /\ last'.type = "RENAME_SNAPSHOT_RESPONSE" /\ last'.success
  /\ \E newName \in RenameInputs : HandleRenameSnapshot(id, newName)

\* C14: over every step of the store operations, a snapshot that stays in the
\* store keeps its id, timestamp, domContent and size; its name changes only
\* in a successful rename of its id, and in one step at most one snapshot
\* changes its name; a rename step changes no group membership or order and
\* no metadata (totalSize, snapshotCount, lastCleanup) or settings.
C14_SnapshotsImmutable ==
  [][/\ \A x \in StoredSnapshots(storage), y \in StoredSnapshots(storage') :
          x.id = y.id =>
            /\ y.timestamp = x.timestamp
            /\ y.domContent = x.domContent
            /\ y.size = x.size
            /\ y.name # x.name =>
                 /\ RenameStep(x.id)
                 /\ \A x2 \in StoredSnapshots(storage), y2 \in StoredSnapshots(storage') :
                      (x2.id = y2.id /\ y2.name # x2.name) => x2.id = x.id
     /\ last'.type = "RENAME_SNAPSHOT_RESPONSE" =>
          /\ WithoutNames(storage'.snapshots) = WithoutNames(storage.snapshots)
          /\ storage'.metadata = storage.metadata
          /\ storage'.settings = storage.settings
    ]_vars

\* C14 witness: a rename has succeeded in a group of two snapshots, and the
\* two now carry different names
C14_Witness ==
  /\ last.type = "RENAME_SNAPSHOT_RESPONSE" /\ last.success
  /\ \E i \in 1..Len(storage.snapshots) :
       /\ Len(storage.snapshots[i].list) = 2
       /\ storage.snapshots[i].list[1].name # storage.snapshots[i].list[2].name

\* the snapshots object without the snapshot id, and without the groups
\* that are left empty
WithoutId(snaps, id) ==
  SelectSeq([i \in 1..Len(snaps) |->
               [url |-> snaps[i].url, list |-> SelectSeq(snaps[i].list, LAMBDA x : x.id # id)]],
            LAMBDA e : e.list # <<>>)

\* C15: a delete request for id answers success exactly when a snapshot with
\* that id is stored; then exactly that snapshot is gone, the other members
\* of its group keep their order, the group's key is gone if the group became
\* empty, totalSize drops by its size and snapshotCount by 1, and the other
\* groups and the settings are as before; otherwise the store is unchanged.
C15_DeleteRemovesExactlyOne ==
  [][\A id \in Ids :
       (last'.type = "DELETE_SNAPSHOT_RESPONSE" /\ HandleDeleteSnapshot(id)) =>
         IF \E x \in StoredSnapshots(storage) : x.id = id
           THEN LET x == CHOOSE x \in StoredSnapshots(storage) : x.id = id
                IN  /\ last'.success
                    /\ storage'.snapshots = WithoutId(storage.snapshots, id)
                    /\ storage'.metadata.totalSize = storage.metadata.totalSize - x.size
                    /\ storage'.metadata.snapshotCount = storage.metadata.snapshotCount - 1
                    /\ storage'.settings = storage.settings
           ELSE /\ ~last'.success
                /\ storage' = storage
    ]_vars

\* C15 witness: after two saves a delete has succeeded and one snapshot is left
C15_Witness ==
  /\ last.type = "DELETE_SNAPSHOT_RESPONSE" /\ last.success
  /\ storage.metadata.snapshotCount = 1
  /\ nextId = 3

\* C16: a clear request for url removes exactly the group of normalizeUrl(url),
\* answers with the number of snapshots it removed, lowers totalSize by the
\* sum of their sizes and snapshotCount by their number, and leaves every
\* other group, lastCleanup and the settings as they were; for a URL without
\* snapshots it answers 0 and the store is unchanged.
C16_ClearGroupRemovesExactlyGroup ==
  [][\A url \in Urls :
       (last'.type = "CLEAR_SNAPSHOTS_RESPONSE" /\ HandleClearSnapshots(url)) =>
         LET key == normalizeUrl(url)
             removed == {x \in StoredSnapshots(storage) :
                           \E i \in 1..Len(storage.snapshots) :
                             /\ storage.snapshots[i].url = key
                             /\ \E j \in 1..Len(storage.snapshots[i].list) :
                                  storage.snapshots[i].list[j] = x}
         IN  /\ last'.deletedCount = Cardinality(removed)
             /\ storage'.snapshots = SelectSeq(storage.snapshots, LAMBDA e : e.url # key)
             /\ storage'.metadata.totalSize = storage.metadata.totalSize - SizeOfAll(removed)
             /\ storage'.metadata.snapshotCount =
                  storage.metadata.snapshotCount - Cardinality(removed)
             /\ storage'.metadata.lastCleanup = storage.metadata.lastCleanup
             /\ storage'.settings = storage.settings
             /\ removed = {} => storage' = storage
    ]_vars

\* C16 witness: a clear has removed one group and left another group
C16_Witness ==
  /\ last.type = "CLEAR_SNAPSHOTS_RESPONSE" /\ last.deletedCount = 1
  /\ Len(storage.snapshots) = 1

\* C17: after a clearAll request, getStorageInfo reports totalSize 0 and
\* snapshotCount 0, getSnapshotsForUrl is empty for every URL, the count
\* answered is the number of snapshots that were stored, and the settings
\* are unchanged.
C17_ClearAllEmptiesStore ==
  [][last'.type = "CLEAR_ALL_SNAPSHOTS_RESPONSE" =>
       /\ getStorageInfo(storage').totalSize = 0
       /\ getStorageInfo(storage').snapshotCount = 0
       /\ \A url \in Urls : getSnapshotsForUrl(storage', url) = <<>>
       /\ last'.deletedCount = Cardinality(StoredSnapshots(storage))
       /\ storage'.settings = storage.settings
    ]_vars

\* C17 witness: after two saves a clearAll has removed two snapshots
C17_Witness ==
  /\ last.type = "CLEAR_ALL_SNAPSHOTS_RESPONSE" /\ last.deletedCount >= 2
  /\ nextId = 3

\* the ids of a list of snapshots, in its order
IdsOf(list) == [i \in 1..Len(list) |-> list[i].id]

RECURSIVE IsSubsequence(_, _)
\* a is b with some elements left out
IsSubsequence(a, b) ==
  IF a = <<>> THEN TRUE
  ELSE IF b = <<>> THEN FALSE
  ELSE IF Head(a) = Head(b) THEN IsSubsequence(Tail(a), Tail(b))
  ELSE IsSubsequence(a, Tail(b))

RemovingResponses ==
  {"CAPTURE_SNAPSHOT_RESPONSE", "DELETE_SNAPSHOT_RESPONSE", "CLEAR_SNAPSHOTS_RESPONSE",
   "CLEAR_ALL_SNAPSHOTS_RESPONSE"}

\* what getByUrl returns changes, over a step, only as the claim of C18
\* allows: the snapshots returned for url are those returned before, in
\* their order, less what a delete, clear or eviction of this step removed,
\* with the snapshot this step saved under the same normalized URL
SavedInOrder(url) ==
  LET old == getSnapshotsForUrl(storage, url)
      new == getSnapshotsForUrl(storage', url)
      saved == IF SaveStep /\ last'.key = normalizeUrl(url)
                 THEN <<last'.snapshot>> ELSE <<>>
  IN  /\ IsSubsequence(IdsOf(new), IdsOf(old \o saved))
      /\ IdsOf(new) # IdsOf(old \o saved) => last'.type \in RemovingResponses

\* the save of this step is visible afterwards: its snapshot is the last one
\* getByUrl returns and the one getById returns
SaveVisible(url) ==
  LET new == getSnapshotsForUrl(storage', url)
  IN  (SaveStep /\ last'.key = normalizeUrl(url)) =>
        /\ new # <<>> /\ new[Len(new)] = last'.snapshot
        /\ getSnapshotById(storage', last'.snapshotId) = last'.snapshot

\* C18: getByUrl(url) returns exactly the snapshots saved under the same
\* normalized URL and not since deleted, cleared or evicted, in the order
\* they were saved, and a completed save is visible to getByUrl and getById.
C18_GetByUrlSavedInOrder ==
  [][\A url \in Urls : SavedInOrder(url) /\ SaveVisible(url)]_vars

\* two URL strings written alike but for the fragment
SameButFragment(u, v) == [u EXCEPT !.fragment = ""] = [v EXCEPT !.fragment = ""]

\* two URLs new URL() accepts, with different search components
DifferentQuery(u, v) ==
  /\ ~Unparsable(u) /\ ~Unparsable(v)
  /\ URL(u).search # URL(v).search

\* the URLs the group key was made from
SavedUnder(key) == {u \in Urls : isValidUrl(u) /\ normalizeUrl(u) = key}

\* the pairs of different URLs written alike but for the fragment
FragmentPairs == {p \in Urls \X Urls : p[1] # p[2] /\ SameButFragment(p[1], p[2])}

\* the pairs of URLs with different queries
QueryPairs == {p \in Urls \X Urls : DifferentQuery(p[1], p[2])}

\* normalizing what normalizeUrl returned returns it unchanged
Idempotent(u) == normalizeUrl(normalizeUrl(u)) = normalizeUrl(u)

\* the state part of C19
GroupsByUrl ==
  /\ \A u \in Urls : Idempotent(u)
  /\ \A i \in 1..Len(storage.snapshots) :
       normalizeUrl(storage.snapshots[i].url) = storage.snapshots[i].url
  /\ \A p \in FragmentPairs :
       getSnapshotsForUrl(storage, p[1]) = getSnapshotsForUrl(storage, p[2])
  /\ \A p \in QueryPairs :
       LET a == getSnapshotsForUrl(storage, p[1])
           b == getSnapshotsForUrl(storage, p[2])
       IN  \A i \in 1..Len(a), j \in 1..Len(b) : a[i].id # b[j].id
  /\ (IsCapture /\ last.success /\ getSnapshotById(storage, last.snapshotId) # NoSnapshot) =>
       /\ \A p \in FragmentPairs :
            p[1] \in SavedUnder(last.key) =>
              FindIndex(getSnapshotsForUrl(storage, p[2]), last.snapshotId) # 0
       /\ \A p \in QueryPairs :
            p[1] \in SavedUnder(last.key) =>
              FindIndex(getSnapshotsForUrl(storage, p[2]), last.snapshotId) = 0

Requested == restore.pc # "idle"

\* the content script has answered the request, or the handler has returned
Answered == restore.pc \in {"responded", "done"}

\* the RESTORE_SNAPSHOT response of the request is the last response sent
Returned == restore.pc = "done" /\ last.type = "RESTORE_SNAPSHOT_RESPONSE"

\* a restore function has run for the request, or the document is not what
\* it was when the request was made
Touched == Requested /\ (restore.restoreCalled # "none" \/ document # restore.before)

\* C11: in every restore request whose content validateDOMContent reports
\* invalid, the confirmation dialog is not shown, neither restoreDOM nor
\* restoreDOMHotReload is called, the document stays what it was, and the
\* content script's and the background's responses have success = false (no
\* notification either); so a restore function only ever runs on content
\* that passed validation in the same request.
C11_InvalidContentRefused ==
  /\ (Requested /\ restore.pc # "sent" /\ ~validateDOMContent(restore.domContent).isValid) =>
       /\ ~restore.confirmShown
       /\ restore.restoreCalled = "none"
       /\ document = restore.before
       /\ ~restore.success
       /\ ~restore.notified
       /\ Returned => ~last.success
  /\ restore.restoreCalled # "none" => validateDOMContent(restore.domContent).isValid

\* a request for a stored snapshot with 'javascript:' in it has been refused
\* and answered, with a valid snapshot in the store as well
C11_Witness ==
  /\ Returned
  /\ restore.domContent.text = LinkHtml
  /\ restore.error = "Invalid DOM content"
  /\ last.error = "Invalid DOM content"
  /\ storage.metadata.snapshotCount = 2

\* C12: a restore request touches the document only after the user accepted
\* the confirmation dialog of that request; when the user declines, no
\* restore function runs, the document stays what it was, the response is
\* success = false with 'Restoration cancelled by user', and the background
\* shows no success notification.
C12_RestoreOnlyAfterConfirmation ==
  /\ Touched => restore.confirmShown /\ restore.accepted
  /\ (restore.confirmShown /\ ~restore.accepted) =>
       /\ restore.restoreCalled = "none"
       /\ document = restore.before
       /\ Answered
       /\ ~restore.success
       /\ restore.error = "Restoration cancelled by user"
       /\ ~restore.notified
       /\ Returned => ~last.success /\ last.error = "Restoration cancelled by user"

\* the user has declined the second request, after accepting the first, which
\* changed the document
C12_Witness ==
  /\ Returned
  /\ restore.requests = 2
  /\ restore.confirmShown /\ ~restore.accepted
  /\ last.error = "Restoration cancelled by user"
  /\ document = PlainHtml

\* the errors of a validation result, as a set
ErrorsOf(validation) == {validation.errors[i] : i \in 1..Len(validation.errors)}

\* C20: the validator's root-element check is a case-insensitive substring
\* check: validateDOMContent reports 'Missing HTML root element' exactly for
\* the contents that hold '<html' in no letter case, so '<HTML></HTML>' gets
\* no such error.
C20_RootCheckIgnoresCase ==
  output # NotCalled =>
    (("Missing HTML root element" \in ErrorsOf(output))
       <=> ~IncludesAnyCase(input.text, HtmlTag))

\* C22: automatic cleanup triggers at 80% of the capacity: a completed save
\* that would leave totalSize above 80% of maxTotalSize has run the
\* oldest-first cleanup, so the state a save persists never has totalSize
\* above 80% of maxTotalSize.
C22_SaveLeavesAtMostTarget ==
  (IsCapture /\ last.success) =>
    /\ ~TargetReached(storage.metadata.totalSize, storage.settings) => last.cleaned
    /\ TargetReached(storage.metadata.totalSize, storage.settings)

\* the executor of the call has returned
ExecutorReturned == call.pc = "returned"

\* C21: a call whose work took longer than its time limit (captureDOM: 10 s,
\* restoreDOMHotReload and restoreDOM: 5 s) has its promise rejected with the
\* timeout error, not resolved.
C21_OverrunRejectedWithTimeout ==
  (ExecutorReturned /\ call.finishedAt > call.timeout) =>
    /\ call.promise = "rejected"
    /\ call.error = "timeout"

\* step has been begun
Begun(step) == \E i \in 1..Len(call.steps) : call.steps[i] = step

\* step has been begun and has returned
Finished(step) == Begun(step) /\ call.failed # step /\ call.pc # step

\* step a has returned by the time step b was begun, when b was begun at all
Before(a, b) ==
  \A j \in 1..Len(call.steps) :
    call.steps[j] = b => \E i \in 1..(j - 1) : call.steps[i] = a /\ call.failed # a

\* C30: restoreDOMHotReload parses the content, then captures the page's
\* state, then updates the head, then morphs the body, then replays the
\* state: the capture comes before the first change of the live document and
\* the replay after the body morph has finished; with preserveState false
\* there is neither capture nor replay; when parsing fails the document is
\* not changed; and a call that resolves has run all of its steps.
C30_HotRestoreOrder ==
  call.op = "restoreDOMHotReload" =>
    /\ Before("parse", "preserve") /\ Before("parse", "updateHead")
    /\ Before("updateHead", "morphBody")
    /\ Before("morphBody", "replay")
    /\ call.preserveState => Before("preserve", "updateHead") /\ Before("preserve", "replay")
    /\ call.mutated => Finished("parse") /\ (call.preserveState => Finished("preserve"))
    /\ ~call.preserveState => ~Begun("preserve") /\ ~Begun("replay")
    /\ call.failed = "parse" => ~call.mutated /\ call.promise = "rejected"
    /\ \A i, j \in 1..Len(call.steps) : i # j => call.steps[i] # call.steps[j]
    /\ call.promise = "resolved" =>
         /\ Finished("updateHead") /\ Finished("morphBody")
         /\ call.preserveState => Finished("replay")

\* a hot restoration that keeps the state has run all five steps and resolved
C30_Witness ==
  /\ call.op = "restoreDOMHotReload" /\ call.preserveState
  /\ call.promise = "resolved"
  /\ Len(call.steps) = 5
  /\ call.mutated

\* the attributes of an element, as name-value pairs
AttributesOf(node) == {<<node.attrs[i].name, node.attrs[i].value>> : i \in 1..Len(node.attrs)}

RECURSIVE StructurallyEqual(_, _)
\* two subtrees with the same nodes: kind, tag, text, the same attributes on
\* every element and the same sequence of children, recursively
StructurallyEqual(a, b) ==
  /\ a.kind = b.kind /\ a.tag = b.tag /\ a.data = b.data
  /\ AttributesOf(a) = AttributesOf(b)
  /\ Len(a.attrs) = Len(b.attrs)
  /\ Len(a.children) = Len(b.children)
  /\ \A i \in 1..Len(a.children) : StructurallyEqual(a.children[i], b.children[i])

\* C23: after morphElement(live, target), for elements with the same root
\* tag, the live subtree is structurally equal to the target subtree.
C23_MorphConverges == output.calls >= 1 => StructurallyEqual(input.live, input.target)

\* a morph that had to remove a child, replace a comment by an element and
\* change attributes has been done
C23_Witness ==
  /\ output.calls = 1
  /\ Len(input.before.children) = 2 /\ Len(input.target.children) = 1
  /\ input.before.children[1].kind = "comment" /\ input.target.children[1].kind = "element"
  /\ AttributesOf(input.before) # AttributesOf(input.target)
  /\ output.mutations >= 3

\* C24: morphing a live tree against a target it already equals makes no
\* change at all (no attribute set or removed, no child appended, removed or
\* replaced, no text written), so a second morph with the same target right
\* after a morph changes nothing.
C24_MorphIdempotent ==
  /\ (output.calls >= 1 /\ StructurallyEqual(input.before, input.target)) =>
       output.mutations = 0 /\ input.live = input.before
  /\ output.calls = 2 => output.mutations = 0 /\ input.live = input.before

\* a second morph has been done after a first that changed the live tree, on
\* a target with a comment and an element with children in it
C24_Witness ==
  /\ output.calls = 2
  /\ Len(input.target.children) = 2
  /\ input.target.children[1].kind = "comment"
  /\ input.target.children[2].kind = "element" /\ Len(input.target.children[2].children) = 2
  /\ Len(input.target.attrs) = 2
  /\ Len(input.before.attrs) = 2

\* the value, checked state and selectedIndex of a field are what they were
SameFieldState(after, before) ==
  /\ after.value = before.value
  /\ IsCheckable(before) => after.checked = before.checked
  /\ before.type = "select" => after.selectedIndex = before.selectedIndex

\* C25: every input, textarea and select that is in the document before a
\* hot restoration and still there afterwards, at the same position with the
\* same id and name, has after the replay the value (checked state,
\* selectedIndex) it had before the restoration, whatever the ids and names:
\* shared names and fields with neither id nor name included.
C25_ReplayKeepsFieldState ==
  output.done =>
    \A i \in 1..Len(input.live) : SameFieldState(output.fields[i], input.live[i])

\* C26: for a tree without script elements (elements with attributes, text,
\* comments, style elements), serializing it, parsing the result into a fresh
\* document and serializing again gives the same output, and the text and
\* the attribute values come back as they were: the parsed document is the
\* original one.
C26_RoundTripOnStaticContent ==
  output.done =>
    /\ output.second = output.first
    /\ output.parsed = input

\* the response to the message, once sendResponse has been called
Responded == message # NoRequest /\ responses # <<>>

\* the storage rejected a call of the handler that answered: after a failed
\* get or set the storage is what it was, so the snapshots are judged on it
FailureReportedAsNormal(response) ==
  \/ /\ response.type \in {"DELETE_SNAPSHOT_RESPONSE", "RESTORE_SNAPSHOT_RESPONSE"}
     /\ getSnapshotById(storage, message.snapshotId) # NoSnapshot
     /\ response.error = "Snapshot not found"
  \/ /\ response.type = "GET_SNAPSHOTS_RESPONSE"
     /\ message.url # NoUrl
     /\ getSnapshotsForUrl(storage, message.url) # <<>>
     /\ response.snapshots = <<>>
  \/ /\ response.type = "CLEAR_SNAPSHOTS_RESPONSE"
     /\ message.url # NoUrl
     /\ getSnapshotsForUrl(storage, message.url) # <<>>
     /\ response.deletedCount = 0
  \/ /\ response.type = "CLEAR_ALL_SNAPSHOTS_RESPONSE"
     /\ CountAll(storage.snapshots) > 0
     /\ response.deletedCount = 0
  \/ /\ response.type = "GET_STORAGE_INFO_RESPONSE"
     /\ storage.metadata.totalSize > 0
     /\ response.info.totalSize = 0

\* C27: a failure of chrome.storage.local during getByUrl, getById, delete,
\* clearGroup, clearAll or getUsage is passed on as a failure with an error
\* message: no response says 'Snapshot not found' of a stored snapshot, gives
\* an empty list for a URL with snapshots, a deleted count of 0 for stored
\* snapshots or a usage of zero for a store that holds some.
C27_FailurePassedThrough ==
  Responded /\ "type" \in DOMAIN responses[1] => ~FailureReportedAsNormal(responses[1])

\* C28: a COPY_SNAPSHOT request for the id of a stored snapshot is answered
\* with success = true and that snapshot's HTML, and every message type the
\* popup sends has a case in the listener's switch.
C28_CopySnapshotHandled ==
  (Responded /\ message.type \in PopupMessageTypes) =>
    /\ message.type \in RoutedTypes
    /\ (message.type = "COPY_SNAPSHOT"
          /\ getSnapshotById(storage, message.snapshotId) # NoSnapshot)
         => /\ {"success", "content"} \subseteq DOMAIN responses[1]
            /\ responses[1].success
            /\ responses[1].content = getSnapshotById(storage, message.snapshotId).domContent

\* C29: for every message received, whatever its type and whatever fails in
\* its handler, sendResponse is called exactly once, with a response whose
\* requestId is the request's, which the popup's sendMessage accepts: a
\* message is followed by at most one response, the listener's async
\* function ends with one, and a next message comes after it.
C29_OneResponsePerRequest ==
  [][/\ Len(responses') <= 1
     /\ \A i \in 1..Len(responses') : PopupAccepts(responses'[i], message'.requestId)
     /\ (message # NoRequest /\ responses = <<>>) => (message' = message /\ Len(responses') = 1)]_vars

\* a rename whose store call threw has been answered: the handler's catch
\* made the response, with the request's id
C29_Witness ==
  /\ Responded
  /\ message.type = "RENAME_SNAPSHOT"
  /\ message.requestId = 2
  /\ responses[1].error = StorageError
  /\ PopupAccepts(responses[1], message.requestId)

\* C38: in every persisted state that completed store operations reach,
\* metadata.totalSize is at most settings.maxTotalSize, and so is the sum of
\* the sizes of the stored snapshots: the usage never exceeds 100%.
C38_WithinByteBudget ==
  /\ storage.metadata.totalSize <= storage.settings.maxTotalSize
  /\ SizeOfAll(StoredSnapshots(storage)) <= storage.settings.maxTotalSize

\* C38 witness: a save that went over the budget has completed, and the
\* cleanup left snapshots behind
C38_Witness ==
  /\ IsCapture /\ last.success /\ last.cleaned
  /\ storage.metadata.totalSize > 0
  /\ Len(storage.snapshots) > 0

\* C39: every key of the persisted snapshots object has at least one
\* snapshot, after any sequence of saves (with their evictions), deletes,
\* renames, clearGroup and clearAll.
C39_NoEmptyGroup ==
  \A i \in 1..Len(storage.snapshots) : Len(storage.snapshots[i].list) > 0

\* C39 witness: a delete took the last member of a group, and the store has
\* no key left
C39_Witness ==
  /\ last.type = "DELETE_SNAPSHOT_RESPONSE" /\ last.success
  /\ storage.snapshots = <<>>
  /\ nextId > 1

\* the groups other than the one a save step saves into are what they were
OtherGroupsKept ==
  \A i \in 1..Len(storage.snapshots) :
    storage.snapshots[i].url # last'.key =>
      GroupOf(storage'.snapshots, storage.snapshots[i].url) = storage.snapshots[i].list

\* C40: the global oldest-first eviction of a save runs only when
\* settings.autoCleanup is true: with autoCleanup false a save does not run
\* it and removes no snapshot of another group.
C40_AutoCleanupGovernsEviction ==
  [][(SaveStep /\ ~storage.settings.autoCleanup) => (~last'.cleaned /\ OtherGroupsKept)]_vars

\* the listener's async function answers the message in this step
Answers(type) == message.type = type /\ responses = <<>> /\ responses' # <<>>

\* the id the message names is not in the store
UnknownId == getSnapshotById(storage, message.snapshotId) = NoSnapshot

\* the step sent nothing to the content script and left the document alone
ContentScriptUntouched == restore' = restore /\ document' = document

\* the response of the step says 'Snapshot not found'
NotFoundResponse ==
  /\ ~responses'[1].success
  /\ responses'[1].error = "Snapshot not found"

\* C36 as stated: a restore request for an id that is not in the store is
\* answered with success = false and a not-found error, no message reaches
\* the content script and the document is not changed; delete and rename of
\* such an id are answered with success = false and a not-found error and
\* leave the store unchanged.
C36_UnknownIdNotFound ==
  [][/\ (Answers("RESTORE_SNAPSHOT") /\ UnknownId) =>
          (NotFoundResponse /\ ContentScriptUntouched /\ storage' = storage)
     /\ ((Answers("DELETE_SNAPSHOT") \/ Answers("RENAME_SNAPSHOT")) /\ UnknownId) =>
          (NotFoundResponse /\ storage' = storage)]_vars

\* C36, amended: such a request is answered with success = false, the store,
\* the content script and the document are left alone, and the error is the
\* not-found error unless an earlier check of the handler failed: a restore
\* without an active tab says so, a rename with an invalid name gives the
\* name's error, and a rename whose storage read failed gives that error.
C36_UnknownIdFails ==
  [][/\ (Answers("RESTORE_SNAPSHOT") /\ UnknownId) =>
          /\ ~responses'[1].success
          /\ responses'[1].error \in {"Snapshot not found", "No active tab found"}
          /\ ContentScriptUntouched /\ storage' = storage
     /\ (Answers("DELETE_SNAPSHOT") /\ UnknownId) =>
          (NotFoundResponse /\ ContentScriptUntouched /\ storage' = storage)
     /\ (Answers("RENAME_SNAPSHOT") /\ UnknownId) =>
          /\ ~responses'[1].success
          /\ IF RenameError(message.newName) # ""
               THEN responses'[1].error = RenameError(message.newName)
               ELSE responses'[1].error \in {"Snapshot not found", StorageError}
          /\ ContentScriptUntouched /\ storage' = storage]_vars

\* C36 witness: with snapshot 1 stored and restored before, a restore of the
\* unknown id 2 has been answered 'Snapshot not found'
C36_Witness ==
  /\ Responded
  /\ message.type = "RESTORE_SNAPSHOT" /\ message.snapshotId = 2
  /\ getSnapshotById(storage, 1) # NoSnapshot
  /\ getSnapshotById(storage, 2) = NoSnapshot
  /\ responses[1].error = "Snapshot not found"
  /\ restore.pc = "done" /\ document # <<>>

\* the call has returned: with a response, or with an error thrown
Settled == output.pc \in {"resolved", "rejected"}

\* C35: sendMessageToContentScript always ends, with a response or with an
\* error, after at most 3 calls of chrome.tabs.sendMessage and at most 2
\* injections; it sends again only after a 'Could not establish connection'
\* error and an injection that succeeded, and any other failure, a failed
\* injection included, is thrown as it is without another send.
C35_SendTerminatesWithinRetries ==
  /\ [](output.attempts <= 3 /\ output.injections <= 2)
  /\ [](output.pc = "rejected" => output.error # <<>>)
  /\ [][/\ output'.attempts > output.attempts =>
            /\ Includes(output.error, ConnectionPhrase)
            /\ output.events[Len(output.events)] = "injected"
        /\ (output.pc = "sending" /\ output'.events[Len(output'.events)] = "lastError"
              /\ ~Includes(output'.error, ConnectionPhrase)) => output'.pc = "rejected"
        /\ (output.pc = "sending" /\ output'.events[Len(output'.events)] = "nothing")
              => (output'.pc = "rejected" /\ output'.error = NoResponseError)
        /\ (output.pc = "injecting" /\ output'.events[Len(output'.events)] = "not injected")
              => (output'.pc = "rejected" /\ output'.error = output.error)]_vars
  /\ <>Settled

\* C35 witness: the third send was answered, after two injections
C35_Witness ==
  /\ output.pc = "resolved"
  /\ output.attempts = 3 /\ output.injections = 2

\* C37: the content captureDOM produces with the capture's options, for any
\* page up to the capture size limit, is accepted by validateDOMContent: a
\* snapshot that was captured and saved can be restored.
C37_CapturedContentIsValid ==
  output # NotCalled => output.isValid

\* the nodes below a head and the head's children themselves, in document
\* order
RECURSIVE DocumentOrder(_)
DocumentOrder(children) ==
  Concat([i \in 1..Len(children) |-> <<children[i]>> \o DocumentOrder(children[i].children)])

\* a script element with a src attribute
ExternalScript(n) == n.kind = "element" /\ n.tag = "SCRIPT" /\ n.src # ""

\* the scripts of the live head the update preserves
PreservedScripts == SelectSeq(DocumentOrder(input.currentHead), ExternalScript)

\* a child of the target head a clone of which the update appends: an
\* element that is not a script with the src of a preserved script
ClonedIntoHead(n) ==
  /\ n.kind = "element"
  /\ ~(n.tag = "SCRIPT" /\ \E i \in 1..Len(PreservedScripts) : PreservedScripts[i].src = n.src)

RECURSIVE CopyOf(_, _)
\* copy is a deep copy of n made of new nodes
CopyOf(copy, n) ==
  /\ copy.node = <<"clone", n.node>>
  /\ copy.kind = n.kind /\ copy.tag = n.tag /\ copy.src = n.src /\ copy.data = n.data
  /\ Len(copy.children) = Len(n.children)
  /\ \A i \in 1..Len(n.children) : CopyOf(copy.children[i], n.children[i])

\* C31: after updateDocumentHead the children of the live head are, in
\* order, clones of the element children of the target head, those scripts
\* left out whose src is the src of a preserved live script, and then the
\* preserved live scripts themselves (the same nodes) in the order they had,
\* each once; no other former child of the head remains.
C31_HeadAfterUpdate ==
  output.calls = 1 =>
    LET cloned == SelectSeq(input.newHead, ClonedIntoHead)
        head == output.head
    IN  /\ Len(head) = Len(cloned) + Len(PreservedScripts)
        /\ \A i \in 1..Len(cloned) : CopyOf(head[i], cloned[i])
        /\ \A i \in 1..Len(PreservedScripts) : head[Len(cloned) + i] = PreservedScripts[i]
        /\ \A i, j \in 1..Len(head) : head[i].node = head[j].node => i = j
        /\ \A i \in 1..Len(head) :
             head[i].node[1] = "live" => ExternalScript(head[i])

\* the head held a style sheet and a script from a.js, and the snapshot's
\* head a script from a.js and one from b.js: the head now holds a clone of
\* the latter and the script it had
C31_Witness ==
  /\ output.calls = 1
  /\ Len(input.currentHead) = 2 /\ input.currentHead[1].tag = "STYLE"
  /\ input.currentHead[2].src = "a.js"
  /\ Len(input.newHead) = 2 /\ input.newHead[1].src = "a.js" /\ input.newHead[2].src = "b.js"
  /\ Len(output.head) = 2
  /\ output.head[1].node = <<"clone", <<"snapshot", 2>>>>
  /\ output.head[2].node = <<"live", 2>>

\* after is the node before was: a node of the live tree is told by its
\* place before the morph
SameNode(after, before) ==
  "node" \in DOMAIN before => "node" \in DOMAIN after /\ after.node = before.node

RECURSIVE KeptBelow(_, _, _)
\* the element before, morphed against target, is the node after, and so
\* are, at every position, a child element whose counterpart is an element
\* with its tag, and what is below it, and a text node whose counterpart is
\* a text node, which has the counterpart's text
KeptBelow(before, target, after) ==
  /\ SameNode(after, before)
  /\ \A i \in 1..Len(before.children) :
       i <= Len(target.children) =>
         LET b == before.children[i]
             t == target.children[i]
         IN  /\ (b.kind = "element" /\ t.kind = "element" /\ b.tag = t.tag) =>
                  i <= Len(after.children) /\ KeptBelow(b, t, after.children[i])
             /\ (b.kind = "text" /\ t.kind = "text") =>
                  /\ i <= Len(after.children)
                  /\ SameNode(after.children[i], b)
                  /\ after.children[i].data = t.data

\* the positions where a text node faces a text node with another text
TextsThatDiffer(before, target) ==
  {i \in 1..Len(before.children) :
     /\ before.children[i].kind = "text" /\ target.children[i].kind = "text"
     /\ before.children[i].data # target.children[i].data}

\* the two elements differ in nothing but the text of text nodes among
\* their children
DifferInTextOnly(before, target) ==
  /\ AttributesOf(before) = AttributesOf(target)
  /\ Len(before.children) = Len(target.children)
  /\ \A i \in 1..Len(before.children) :
       \/ before.children[i].kind = "text" /\ target.children[i].kind = "text"
       \/ /\ before.children[i].kind = "element"
          /\ StructurallyEqual(before.children[i], target.children[i])

\* C32: the morph keeps the live root element, and every live child element
\* whose counterpart at the same position in the target is an element with
\* the same tag name, recursively along such matches, as the same node; a
\* live text node whose counterpart is a text node is kept too, and its text
\* is written only when it differs.
C32_MatchedNodesKept ==
  output.calls >= 1 =>
    /\ KeptBelow(input.before, input.target, input.live)
    /\ DifferInTextOnly(input.before, input.target) =>
         output.mutations = Cardinality(TextsThatDiffer(input.before, input.target))

\* a morph has kept a div whose attributes and children it changed, and a
\* text node after it whose text it wrote
C32_Witness ==
  /\ output.calls = 1
  /\ Len(input.before.children) = 2 /\ Len(input.target.children) = 2
  /\ input.before.children[1].tag = "div" /\ input.target.children[1].tag = "div"
  /\ ~StructurallyEqual(input.before.children[1], input.target.children[1])
  /\ input.before.children[2] = LiveTree(TextNode("x"), <<2>>)
  /\ input.target.children[2] = TextNode("y")
  /\ input.live.node = <<>>
  /\ input.live.children[1].node = <<1>>
  /\ StructurallyEqual(input.live.children[1], input.target.children[1])
  /\ input.live.children[2] = LiveTree(TextNode("y"), <<2>>)

\* the delays of the timers that restoration n set for that callback, run
\* or not yet
DelaysSet(n, callback) ==
  {output.timers[i].delay : i \in {k \in 1..Len(output.timers) :
      output.timers[k].restoration = n /\ output.timers[k].callback = callback}}
  \cup {output.fired[i].delay : i \in {k \in 1..Len(output.fired) :
      output.fired[k].restoration = n /\ output.fired[k].callback = callback}}

\* the callbacks that ran did so in the order of their times, and those of
\* one restoration in the order of their delays
FiredInOrder ==
  \A i, j \in 1..Len(output.fired) :
    i < j =>
      /\ output.fired[i].at <= output.fired[j].at
      /\ output.fired[i].restoration = output.fired[j].restoration =>
           output.fired[i].delay < output.fired[j].delay

\* a scroll attempt wrote the position when, and only when, the window was
\* not at the captured position
WroteOnlyIfDiffers ==
  \A i \in 1..Len(output.fired) :
    output.fired[i].callback = "restoreScroll" =>
      (output.fired[i].wrote <=> output.fired[i].before # output.fired[i].target)

\* the window is at the captured position right after the attempt at 100 ms
\* of a restoration during which no other began
C33_CapturedPositionReached ==
  \A i \in 1..Len(output.fired) :
    (/\ output.fired[i].callback = "restoreScroll"
     /\ output.fired[i].delay = ScrollDelays[3]
     /\ output.fired[i].restorations = output.fired[i].restoration) =>
      output.fired[i].after = output.fired[i].target

\* C33 as stated: every restoration sets scroll attempts at 10, 50 and 100 ms
\* and a focus attempt at 150 ms, which run in that order; a scroll attempt
\* writes only if the position differs from the captured one; with no other
\* restoration in between, the position right after the attempt at 100 ms is
\* the captured one.
C33_ReplayAsStated ==
  /\ \A n \in 1..Len(output.captured) :
       /\ DelaysSet(n, "restoreScroll") = {ScrollDelays[i] : i \in 1..Len(ScrollDelays)}
       /\ DelaysSet(n, "focus") = {FocusDelay}
  /\ FiredInOrder
  /\ WroteOnlyIfDiffers
  /\ C33_CapturedPositionReached

\* C33, amended: every restoration sets scroll attempts at 10, 50 and 100 ms,
\* and a focus attempt at 150 ms if and only if the focused element had an
\* id and the restored document has an element with that id; the callbacks
\* run in that order, and each of them does run; a scroll attempt writes
\* only if the position differs from the captured one; right after every
\* scroll attempt the window is at the captured position or, if the document
\* does not scroll that far, as far as it scrolls.
C33_ScrollAndFocusReplay ==
  /\ [](/\ \A n \in 1..Len(output.captured) :
             /\ DelaysSet(n, "restoreScroll") = {ScrollDelays[i] : i \in 1..Len(ScrollDelays)}
             /\ DelaysSet(n, "focus") =
                  IF /\ output.captured[n].state.focus.id # ""
                     /\ output.captured[n].state.focus.id \in output.captured[n].ids
                    THEN {FocusDelay} ELSE {}
        /\ FiredInOrder
        /\ WroteOnlyIfDiffers
        /\ \A i \in 1..Len(output.fired) :
             output.fired[i].callback = "restoreScroll" =>
               output.fired[i].after = scrollTo(output.fired[i].target, output.fired[i].extent))
  /\ <>[](output.timers = <<>>)

\* one restoration, of a page scrolled to 500 with the element e focused,
\* that left the window at the top: the attempt at 10 ms wrote the position,
\* the attempts at 50 and 100 ms found it there, and the focus attempt ran
\* at 150 ms
C33_Witness ==
  /\ input.restorations = 1 /\ Len(output.fired) = 4
  /\ output.captured[1].state.scroll = Position(0, 500)
  /\ output.fired[1].wrote /\ output.fired[1].before = Position(0, 0)
  /\ ~output.fired[2].wrote
  /\ output.fired[3].delay = ScrollDelays[3] /\ ~output.fired[3].wrote
  /\ output.fired[3].after = Position(0, 500)
  /\ output.fired[4].callback = "focus" /\ output.fired[4].at = FocusDelay
  /\ input.active = "e"

\* a timer that is set stays set until its callback runs
NoTimerCancelled ==
  \A i \in 1..Len(output.timers) :
    \/ \E j \in 1..Len(output'.timers) : output'.timers[j] = output.timers[i]
    \/ /\ Len(output'.fired) = Len(output.fired) + 1
       /\ output'.fired[Len(output'.fired)].restoration = output.timers[i].restoration
       /\ output'.fired[Len(output'.fired)].delay = output.timers[i].delay

\* a timer of a restoration is set after which another restoration began
StalePending ==
  \E i \in 1..Len(output.timers) : output.timers[i].restoration < input.restorations

\* C34: the delayed callbacks are never cancelled and check no generation: a
\* callback of a restoration that is pending when a later restoration starts
\* stays pending, runs at its time, and applies what its own restoration
\* captured (its scroll target, its element) to the document as it then is.
C34_StaleCallbacksRun ==
  /\ [][NoTimerCancelled]_vars
  /\ [](\A i \in 1..Len(output.fired) :
          /\ output.fired[i].target = output.captured[output.fired[i].restoration].state.scroll
          /\ output.fired[i].callback = "restoreScroll" =>
               (output.fired[i].wrote <=> output.fired[i].before # output.fired[i].target)
          /\ output.fired[i].callback = "focus" =>
               output.fired[i].element =
                 output.captured[output.fired[i].restoration].state.focus.id)
  /\ StalePending ~> ~StalePending

\* a scroll attempt of the first restoration ran after the second had begun
\* and moved the window to the position the first had captured, which is
\* not the one the second captured
C34_Witness ==
  \E i \in 1..Len(output.fired) :
    /\ output.fired[i].restoration = 1 /\ output.fired[i].restorations = 2
    /\ output.fired[i].callback = "restoreScroll" /\ output.fired[i].wrote
    /\ output.fired[i].at > output.captured[2].at
    /\ output.fired[i].target # output.captured[2].state.scroll
    /\ output.fired[i].after = output.fired[i].target
    /\ input.scroll = output.fired[i].target

====
